---- MODULE Spec2Model ----
(***************************************************************************)
(* A model of the particle simulation core of particlephysicslab:          *)
(* class ParticleSimulation (src/simulation.js, the definition starting at *)
(* line 1088, which is the one the module exports last) and the handlers   *)
(* of src/main.js and src/ui.js that drive it.                             *)
(*                                                                         *)
(* Numbers.  The program computes in IEEE binary floating point.  The      *)
(* model represents every real quantity (pixels, seconds, pixels/second,   *)
(* coefficients) as a binary fixed-point number: the integer n stands for  *)
(* n / Q.  Products and quotients are rounded to the nearest multiple of   *)
(* 1/Q, as a binary float rounds to its nearest representable value.       *)
(* Squared distances are kept unrounded, in units of 1/Q^2.                *)
(*                                                                         *)
(* Arrays.  A Float32Array is a function with domain 0..len-1; a read      *)
(* outside the domain is undefined/NaN in the program, and a write outside *)
(* it is ignored.                                                          *)
(***************************************************************************)
EXTENDS Integers, Sequences, FiniteSets, TLC

(***************************************************************************)
(* Fixed-point arithmetic                                                  *)
(***************************************************************************)
\* one, in fixed point (8 fractional bits)
Q == 16 * 16

Abs(a) == IF a < 0 THEN -a ELSE a

Sign(a) == IF a < 0 THEN -1 ELSE 1

Min(a, b) == IF a < b THEN a ELSE b

Max(a, b) == IF a > b THEN a ELSE b

\* a / b for b > 0, rounded to the nearest integer (halves away from zero)
RDiv(a, b) == Sign(a) * ((2 * Abs(a) + b) \div (2 * b))

\* the fixed-point value of the integer n
FP(n) == n * Q

\* the fixed-point value of the rational n / d
Frac(n, d) == RDiv(n * Q, d)

\* fixed-point product and quotient
Mul(a, b) == RDiv(a * b, Q)

Div(a, b) == Sign(b) * RDiv(a * Q, Abs(b))

\* Math.floor(a / b) of two fixed-point numbers, b > 0: a plain integer
FloorDiv(a, b) == a \div b

\* Math.ceil(a / b) of two fixed-point numbers, b > 0: a plain integer
CeilDiv(a, b) == -((-a) \div b)

RECURSIVE ISqrtIter(_, _, _)
ISqrtIter(n, lo, hi) ==
    IF lo >= hi THEN lo
    ELSE LET mid == (lo + hi + 1) \div 2
         IN  IF mid * mid <= n THEN ISqrtIter(n, mid, hi)
                               ELSE ISqrtIter(n, lo, mid - 1)

\* Math.sqrt of a squared distance in 1/Q^2 units: a distance in 1/Q units
Sqrt(n) == ISqrtIter(n, 0, Min(n, 46340))

\* dx*dx + dy*dy < lim*lim, evaluated without leaving the integer range
SqSumBelow(dx, dy, lim) ==
    /\ Abs(dx) < lim
    /\ Abs(dy) < lim
    /\ dx * dx + dy * dy < lim * lim

\* a floor of 0 in place of 0.01, in 1/Q^2 units; C25 must reject it
SqFloorZero == 0 * (Q * Q)

\* the 0.01 noise floor on a squared distance, in 1/Q^2 units
SqFloor == (Q * Q) \div 100

\* the 0.01 noise floor on a distance, in 1/Q units
DistFloor == Q \div 100

(***************************************************************************)
(* Floating-point rounding of the emitter's clock.  The accumulator is a   *)
(* double: every sum, difference and quotient is rounded to the nearest    *)
(* value with 53 significant bits, ties to even, so 1/10 is not exactly a  *)
(* tenth and ten of them need not make one.  The model rounds the same     *)
(* operations to MantissaBits significant bits.  The binary expansions of  *)
(* the tenths have period 4, and 53 - 48 = 5 bits round them in the same   *)
(* direction as 53 bits do.                                                *)
(***************************************************************************)
MantissaBits == 53 - 48

\* 2^n
RECURSIVE Pow2(_)
Pow2(n) == IF n = 0 THEN 1 ELSE 2 * Pow2(n - 1)

\* the unit in the last place of num/den >= 0: the least power of two u, from
\* u0 on, with num/den < 2^MantissaBits * u
RECURSIVE UlpFrom(_, _, _)
UlpFrom(num, den, u) ==
    IF num < Pow2(MantissaBits) * u * den THEN u ELSE UlpFrom(num, den, 2 * u)

\* num/den >= 0 rounded to MantissaBits significant bits, ties to even
RoundRat(num, den) ==
    LET u == UlpFrom(num, den, 1)
        q == num \div (den * u)
        r == num % (den * u)
    IN  IF 2 * r > den * u \/ (2 * r = den * u /\ q % 2 = 1)
        THEN (q + 1) * u
        ELSE q * u

\* the double nearest to a + b, to a - b and to a / b, for results >= 0
FlAdd(a, b) == RoundRat(a + b, 1)

FlSub(a, b) == RoundRat(a - b, 1)

FlDiv(a, b) == RoundRat(a * Q, b)

\* pi and 2*pi in fixed point
Pi == RDiv(355 * Q, 113)

TwoPi == RDiv(710 * Q, 113)

\* cos on [-pi/2, pi/2], from x2 = x^2:
\* 1 - x2/2 (1 - x2/12 (1 - x2/30 (1 - x2/56)))
CosSeries(x2) ==
    Q - RDiv(Mul(x2, Q - RDiv(Mul(x2, Q - RDiv(Mul(x2, Q - RDiv(x2, 56)), 30)), 12)), 2)

CosPoly(x) == CosSeries(Mul(x, x))

\* the angle a reduced to (-pi, pi], from m = a mod 2 pi
ReduceMod(m) == IF m > Pi THEN m - TwoPi ELSE m

ReduceAngle(a) == ReduceMod(a % TwoPi)

\* cos of an angle r in [0, pi]
CosReduced(r) == IF 2 * r <= Pi THEN CosPoly(r) ELSE -CosPoly(Pi - r)

\* Math.cos and Math.sin of a fixed-point angle in radians
Cos(a) == CosReduced(Abs(ReduceAngle(a)))

\* sin on [-pi/2, pi/2], from x and x2 = x^2:
\* x (1 - x2/6 (1 - x2/20 (1 - x2/42)))
SinSeries(x, x2) ==
    Mul(x, Q - RDiv(Mul(x2, Q - RDiv(Mul(x2, Q - RDiv(x2, 42)), 20)), 6))

SinPoly(x) == SinSeries(x, Mul(x, x))

\* sin of an angle r in (-pi, pi]
SinReduced(r) ==
    IF 2 * Abs(r) <= Pi THEN SinPoly(r) ELSE Sign(r) * SinPoly(Pi - Abs(r))

Sin(a) == SinReduced(ReduceAngle(a))

(***************************************************************************)
(* Math.random().  A call returns a sample of [0, 1); the samples a        *)
(* handler sees are read from a finite tape, the k-th call of the handler  *)
(* reading cell k, and every call after the end of the tape reading the    *)
(* last cell again.                                                        *)
(***************************************************************************)
\* the values Math.random() returns in the model
RndSamples == {0, 2}

\* the length of a random tape
TapeLen == 3

Tapes == [0 .. TapeLen - 1 -> RndSamples]

\* the tape of a handler that calls Math.random() on no path
NoTape == [k \in 0 .. TapeLen - 1 |-> 0]

random(tape, k) == tape[Min(k, TapeLen - 1)]

(***************************************************************************)
(* Typed arrays                                                            *)
(***************************************************************************)
\* new Float32Array(n): n zeros
NewArray(n) == [k \in 0 .. n - 1 |-> 0]

\* a.length
Length(a) == Cardinality(DOMAIN a)

\* a[k] = v; a write outside the array is ignored
Store(a, k, v) == IF k \in DOMAIN a THEN [a EXCEPT ![k] = v] ELSE a

(***************************************************************************)
(* The simulation object.  A field that is null or absent in the program   *)
(* is a sequence of length 0 here, and a field holding an object is the    *)
(* sequence of that one object; an unset numeric field of a shape (vx, vy, *)
(* mass, angle, rotationSpeed) is 0, which the program also reads as       *)
(* "not set".  positions and velocities are null together, exactly while   *)
(* allocated is FALSE.  sensorHits and forceField are << >> while null and *)
(* the sequence of their one Float32Array otherwise.                       *)
(***************************************************************************)
particleRadius == FP(2)

cellSize == FP(5)

\* pixels per sensor cell, and pixels per force-field cell
sensorResolution == FP(1)

forceFieldResolution == FP(20)

\* new ParticleSimulation(particleCount)
constructor(particleCount) ==
    [ particleCount     |-> particleCount,
      allocated         |-> FALSE,
      positions         |-> << >>,
      velocities        |-> << >>,
      speedMultiplier   |-> FP(1),
      damping           |-> Frac(98, 100),
      bounds            |-> [width |-> FP(1920), height |-> FP(1080)],
      shapes            |-> << >>,
      initialShapeStates |-> << >>,
      time              |-> 0,
      sensor            |-> << >>,
      sensorHits        |-> << >>,
      showForceField    |-> FALSE,
      forceField        |-> << >>,
      forceFieldWidth   |-> 0,
      forceFieldHeight  |-> 0,
      emitter           |-> << >>,
      emitterAccumulator |-> 0,
      activeParticles   |-> 0,
      wrapEdges         |-> FALSE ]

\* a rectangle of a preset's shape list
Rect(x, y, w, h) ==
    [ type |-> "rect", x |-> x, y |-> y, width |-> w, height |-> h, radius |-> 0,
      rotating |-> FALSE, rotationSpeed |-> 0, angle |-> 0,
      moveable |-> FALSE, vx |-> 0, vy |-> 0, mass |-> 0 ]

\* a circle of a preset's shape list
Circle(x, y, r, moveable) ==
    [ type |-> "circle", x |-> x, y |-> y, width |-> 0, height |-> 0, radius |-> r,
      rotating |-> FALSE, rotationSpeed |-> 0, angle |-> 0,
      moveable |-> moveable, vx |-> 0, vy |-> 0, mass |-> 0 ]

isPointInShape(x, y, shape) ==
    LET dx == x - shape.x
        dy == y - shape.y
    IN  IF shape.type = "circle"
        THEN /\ Abs(dx) <= shape.radius
             /\ Abs(dy) <= shape.radius
             /\ dx * dx + dy * dy <= shape.radius * shape.radius
        ELSE IF shape.type = "rect"
        THEN /\ x >= shape.x /\ x <= shape.x + shape.width
             /\ y >= shape.y /\ y <= shape.y + shape.height
        ELSE FALSE

isPositionOccupied(s, x, y) ==
    \E k \in 1 .. Len(s.shapes) : isPointInShape(x, y, s.shapes[k])

\* the point at the given angle and distance from (cx, cy)
polar(cx, cy, angle, radius) ==
    << cx + Mul(Cos(angle), radius), cy + Mul(Sin(angle), radius) >>

\* the candidate position of one placement attempt, from two random numbers
candidate(s, initType, r1, r2) ==
    IF initType = "center"
    THEN polar(s.bounds.width \div 2, s.bounds.height \div 2,
               Mul(r1, TwoPi), Mul(r2, FP(200)))
    ELSE IF initType = "left"
    THEN << FP(100) + Mul(r1, FP(50)),
            (s.bounds.height - RDiv(s.bounds.height * 6, 10)) \div 2
                + Mul(r2, RDiv(s.bounds.height * 6, 10)) >>
    ELSE << Mul(r1, s.bounds.width), Mul(r2, s.bounds.height) >>

\* the velocity given to a placed particle, from two more random numbers
launch(initType, r3, r4) ==
    polar(0, 0,
          IF initType = "left" THEN RDiv((r4 - Q \div 2) * 3, 10) ELSE Mul(r4, TwoPi),
          IF initType = "center" THEN FP(50) + Mul(r3, FP(150))
          ELSE IF initType = "left" THEN FP(100) + Mul(r3, FP(100))
          ELSE FP(50) + Mul(r3, FP(100)))

\* the rejection-sampling loop of initCenter, initLeft and initRandom:
\* r is the loop state, k the number of Math.random() calls made so far.
\* An attempt that starts at the last cell of the tape or beyond reads that
\* cell only, and so does every later one: once such an attempt is rejected
\* every further attempt is rejected too, and the loop leaves when attempts
\* reaches maxTotalAttempts.
RECURSIVE placeLoop(_, _, _, _, _, _)
\* one attempt of the loop, with its candidate position c and, if the position
\* is free, the velocity v
attempt(s, initType, tape, maxTotalAttempts, r, k, c, v) ==
    IF ~isPositionOccupied(s, c[1], c[2])
    THEN placeLoop(s, initType, tape, maxTotalAttempts,
             [ placed     |-> r.placed + 1,
               attempts   |-> r.attempts + 1,
               rejected   |-> FALSE,
               positions  |-> Store(Store(r.positions, r.placed * 2, c[1]),
                                    r.placed * 2 + 1, c[2]),
               velocities |-> Store(Store(r.velocities, r.placed * 2, v[1]),
                                    r.placed * 2 + 1, v[2]) ],
             k + 4)
    ELSE placeLoop(s, initType, tape, maxTotalAttempts,
             [r EXCEPT !.attempts = r.attempts + 1,
                       !.rejected = k >= TapeLen - 1], k + 2)

placeLoop(s, initType, tape, maxTotalAttempts, r, k) ==
    IF ~(r.placed < s.particleCount /\ r.attempts < maxTotalAttempts)
    THEN r
    ELSE IF r.rejected
    THEN [r EXCEPT !.attempts = maxTotalAttempts]
    ELSE attempt(s, initType, tape, maxTotalAttempts, r, k,
                 candidate(s, initType, random(tape, k), random(tape, k + 1)),
                 launch(initType, random(tape, k + 2), random(tape, k + 3)))

\* this.particleCount * 100
maxTotalAttempts(s) == s.particleCount * 100

\* the loop state at the exit of the placement loop of initType
placement(s, initType, tape) ==
    placeLoop(s, initType, tape, maxTotalAttempts(s),
              [ placed |-> 0, attempts |-> 0, rejected |-> FALSE,
                positions |-> s.positions, velocities |-> s.velocities ], 0)

\* a variant of shortfall that keeps the requested particleCount when the
\* loop leaves at the attempt cap; C4 must reject it
shortfallKeepsCount(s, r) ==
    [s EXCEPT !.positions = r.positions, !.velocities = r.velocities]

\* the arrays the loop filled, and particleCount = placed if fewer were placed
shortfall(s, r) ==
    [s EXCEPT !.positions     = r.positions,
              !.velocities    = r.velocities,
              !.particleCount = IF r.placed < s.particleCount
                                THEN r.placed ELSE s.particleCount]

\* the body shared by initCenter, initLeft and initRandom
initPlaced(s, initType, tape) == shortfall(s, placement(s, initType, tape))

initCenter(s, tape) == initPlaced(s, "center", tape)

initLeft(s, tape) == initPlaced(s, "left", tape)

initRandom(s, tape) == initPlaced(s, "random", tape)

\* the default mass of a moveable circle: Math.PI * radius * radius * 0.01
defaultMass(radius) == RDiv(Mul(Pi, Mul(radius, radius)), 100)

initCirclePhysics(s) ==
    [s EXCEPT !.shapes =
        [k \in 1 .. Len(s.shapes) |->
            LET shape == s.shapes[k]
            IN  IF shape.type = "circle" /\ shape.moveable /\ shape.mass = 0
                THEN [shape EXCEPT !.mass = defaultMass(shape.radius)]
                ELSE shape]]

\* the sensor rectangle of a preset
Sensor(x, y, w, h) == [x |-> x, y |-> y, width |-> w, height |-> h]

\* the number of cells in a row of the sensor grid
sensorWidth(sensor) == CeilDiv(sensor.width, sensorResolution)

initSensor(s) ==
    IF s.sensor = << >> THEN s
    ELSE [s EXCEPT !.sensorHits =
             << NewArray(sensorWidth(s.sensor[1])
                         * CeilDiv(s.sensor[1].height, sensorResolution)) >>]

initForceField(s) ==
    IF ~s.showForceField THEN s
    ELSE [s EXCEPT
            !.forceFieldWidth  = CeilDiv(s.bounds.width, forceFieldResolution),
            !.forceFieldHeight = CeilDiv(s.bounds.height, forceFieldResolution),
            !.forceField       =
                << NewArray(CeilDiv(s.bounds.width, forceFieldResolution)
                            * CeilDiv(s.bounds.height, forceFieldResolution)) >>]

\* the tail of init, which both of its paths run
initGrids(s) == initForceField(initCirclePhysics(initSensor(s)))

\* the emitter is attached and owns the particle arrays
emitterManaged(s) ==
    /\ s.emitter # << >>
    /\ s.emitter[1].maxParticles # 0
    /\ s.allocated

\* a variant of init that allocates and places the particles whether or not
\* an emitter owns the arrays; C12 must reject it
initReallocates(s, initType, tape) ==
    LET a == [s EXCEPT !.allocated  = TRUE,
                       !.positions  = NewArray(s.particleCount * 2),
                       !.velocities = NewArray(s.particleCount * 2)]
        b == IF initType = "center" THEN initCenter(a, tape)
             ELSE IF initType = "left" THEN initLeft(a, tape)
             ELSE IF initType = "random" THEN initRandom(a, tape)
             ELSE a
    IN  initGrids(b)

init(s, initType, tape) ==
    IF emitterManaged(s)
    THEN initGrids(s)
    ELSE LET a == [s EXCEPT !.allocated  = TRUE,
                            !.positions  = NewArray(s.particleCount * 2),
                            !.velocities = NewArray(s.particleCount * 2)]
             b == IF initType = "center" THEN initCenter(a, tape)
                  ELSE IF initType = "left" THEN initLeft(a, tape)
                  ELSE IF initType = "random" THEN initRandom(a, tape)
                  ELSE a
         IN  initGrids(b)

(***************************************************************************)
(* Emitter                                                                 *)
(***************************************************************************)
\* an emitter descriptor of a preset; maxParticles is a plain integer, 0 if unset
Emitter(x, y, radius, particlesPerSecond, particleSpeed, maxParticles) ==
    [ x |-> x, y |-> y, radius |-> radius,
      particlesPerSecond |-> particlesPerSecond,
      particleSpeed |-> particleSpeed, maxParticles |-> maxParticles ]

\* the off-screen coordinate a pool slot is parked at
parked == FP(-1000)

\* a variant of setEmitter that reallocates the pool but keeps the cursor
\* activeParticles of the previous pool; C10 must reject it
setEmitterKeepsCursor(s, emitter) ==
    LET a == [s EXCEPT !.emitter = emitter, !.emitterAccumulator = 0]
    IN  IF emitter # << >> /\ emitter[1].maxParticles # 0
        THEN [a EXCEPT !.particleCount = emitter[1].maxParticles,
                       !.allocated     = TRUE,
                       !.positions     =
                           [k \in 0 .. emitter[1].maxParticles * 2 - 1 |-> parked],
                       !.velocities    = NewArray(emitter[1].maxParticles * 2)]
        ELSE a

\* setEmitter(emitter); emitter is << >> for null
setEmitter(s, emitter) ==
    LET a == [s EXCEPT !.emitter = emitter, !.emitterAccumulator = 0]
    IN  IF emitter # << >> /\ emitter[1].maxParticles # 0
        THEN [a EXCEPT !.particleCount   = emitter[1].maxParticles,
                       !.allocated       = TRUE,
                       !.positions       =
                           [k \in 0 .. emitter[1].maxParticles * 2 - 1 |-> parked],
                       !.velocities      = NewArray(emitter[1].maxParticles * 2),
                       !.activeParticles = 0]
        ELSE a

\* the writes of emitParticle, from its position and velocity
emitAt(s, idx, p, v) ==
    [s EXCEPT !.positions  = Store(Store(s.positions, idx, p[1]), idx + 1, p[2]),
              !.velocities = Store(Store(s.velocities, idx, v[1]), idx + 1, v[2])]

\* emitParticle with its random angle drawn
emitAtAngle(s, e, idx, angle, r2, r3) ==
    emitAt(s, idx,
           polar(e.x, e.y, angle, Mul(r2, e.radius) \div 2),
           polar(0, 0, angle,
                 Mul(e.particleSpeed, RDiv(8 * Q, 10) + RDiv(r3 * 4, 10))))

\* emitParticle(index), the k-th call of Math.random() being the next one
emitParticle(s, index, tape, k) ==
    emitAtAngle(s, s.emitter[1], index * 2, Mul(random(tape, k), TwoPi),
                random(tape, k + 1), random(tape, k + 2))

\* 1.0 / particlesPerSecond
emitInterval(e) == FlDiv(FP(1), e.particlesPerSecond)

\* a variant of recycledSlot that keeps advancing past the end of the pool;
\* C7 must reject it
recycledSlotPastEnd(s) == s.activeParticles

\* a variant of recycledSlot that recycles the newest slot instead of slot 0;
\* C9 must reject it
recycledSlotNewest(s) == s.activeParticles - 1

\* the slot an emission recycles when the pool is full
recycledSlot(s) == 0

\* the slot an emission activates when the pool is not full
nextSlot(s) == s.activeParticles

\* the emission loop of updateEmitter: n emissions are still due; r.sim is the
\* simulation, r.slots the indices passed to emitParticle so far
RECURSIVE emitLoop(_, _, _, _)
emitLoop(r, n, tape, k) ==
    IF n = 0 THEN r
    ELSE LET s == r.sim
         IN  IF s.emitter[1].maxParticles # 0
                /\ s.activeParticles >= s.emitter[1].maxParticles
             THEN emitLoop([ sim   |-> emitParticle(s, recycledSlot(s), tape, k),
                             slots |-> Append(r.slots, recycledSlot(s)) ],
                           n - 1, tape, k + 3)
             ELSE IF s.activeParticles < s.particleCount
             THEN emitLoop([ sim   |-> [emitParticle(s, nextSlot(s), tape, k)
                                          EXCEPT !.activeParticles = s.activeParticles + 1],
                             slots |-> Append(r.slots, nextSlot(s)) ],
                           n - 1, tape, k + 3)
             ELSE emitLoop(r, n - 1, tape, k)

\* the while loop of updateEmitter: << particlesToEmit, emitterAccumulator >>
RECURSIVE drain(_, _, _)
drain(accumulator, interval, particlesToEmit) ==
    IF accumulator >= interval
    THEN drain(FlSub(accumulator, interval), interval, particlesToEmit + 1)
    ELSE << particlesToEmit, accumulator >>

\* updateEmitter(dt), with the indices it passed to emitParticle
emission(s, dt, tape) ==
    IF s.emitter = << >> \/ s.emitter[1].particlesPerSecond = 0
    THEN [sim |-> s, slots |-> << >>]
    ELSE LET d == drain(FlAdd(s.emitterAccumulator, dt), emitInterval(s.emitter[1]), 0)
         IN  emitLoop([ sim   |-> [s EXCEPT !.emitterAccumulator = d[2]],
                        slots |-> << >> ],
                      d[1], tape, 0)

updateEmitter(s, dt, tape) == emission(s, dt, tape).sim

(***************************************************************************)
(* Shapes in motion                                                        *)
(***************************************************************************)
\* v * 0.995 and v * 0.8
damp995(v) == RDiv(v * 995, 1000)

damp80(v) == RDiv(v * 8, 10)

\* the body of the forEach of updateShapes, for one shape
moveShape(s, shape, dt) ==
    LET a == IF shape.rotating /\ shape.rotationSpeed # 0
             THEN [shape EXCEPT !.angle = shape.angle + Mul(shape.rotationSpeed, dt)]
             ELSE shape
    IN  IF ~(a.type = "circle" /\ a.moveable) THEN a
        ELSE LET x  == a.x + Mul(a.vx, dt)
                 y  == a.y + Mul(a.vy, dt)
                 vx == damp995(a.vx)
                 vy == damp995(a.vy)
                 hx == IF x - a.radius <= 0
                       THEN << a.radius, damp80(Abs(vx)) >>
                       ELSE IF x + a.radius >= s.bounds.width
                       THEN << s.bounds.width - a.radius, -damp80(Abs(vx)) >>
                       ELSE << x, vx >>
                 hy == IF y - a.radius <= 0
                       THEN << a.radius, damp80(Abs(vy)) >>
                       ELSE IF y + a.radius >= s.bounds.height
                       THEN << s.bounds.height - a.radius, -damp80(Abs(vy)) >>
                       ELSE << y, vy >>
             IN  [a EXCEPT !.x = hx[1], !.vx = hx[2], !.y = hy[1], !.vy = hy[2]]

\* the indices in the shape list of the moveable circles, in list order
moveableCircles(shapes) ==
    SelectSeq([k \in 1 .. Len(shapes) |-> k],
              LAMBDA k : shapes[k].type = "circle" /\ shapes[k].moveable)

\* the body of the double loop of checkShapeCollisions, for circles a and b
collideCircles(shapes, a, b) ==
    LET c1        == shapes[a]
        c2        == shapes[b]
        dx        == c2.x - c1.x
        dy        == c2.y - c1.y
        minDist   == c1.radius + c2.radius
        distSq    == dx * dx + dy * dy
    IN  IF ~(SqSumBelow(dx, dy, minDist) /\ distSq > SqFloor) THEN shapes
        ELSE LET dist      == Sqrt(distSq)
                 nx        == Div(dx, dist)
                 ny        == Div(dy, dist)
                 overlap   == minDist - dist
                 totalMass == c1.mass + c2.mass
                 ratio1    == Div(c2.mass, totalMass)
                 ratio2    == Div(c1.mass, totalMass)
                 dvDotN    == Mul(c2.vx - c1.vx, nx) + Mul(c2.vy - c1.vy, ny)
                 impulse   == IF dvDotN < 0 THEN Div(2 * dvDotN, totalMass) ELSE 0
                 k1        == RDiv(Mul(impulse, c2.mass) * 9, 10)
                 k2        == RDiv(Mul(impulse, c1.mass) * 9, 10)
             IN  [shapes EXCEPT
                    ![a] = [c1 EXCEPT !.x  = c1.x - Mul(Mul(nx, overlap), ratio1),
                                      !.y  = c1.y - Mul(Mul(ny, overlap), ratio1),
                                      !.vx = c1.vx + Mul(nx, k1),
                                      !.vy = c1.vy + Mul(ny, k1)],
                    ![b] = [c2 EXCEPT !.x  = c2.x + Mul(Mul(nx, overlap), ratio2),
                                      !.y  = c2.y + Mul(Mul(ny, overlap), ratio2),
                                      !.vx = c2.vx - Mul(nx, k2),
                                      !.vy = c2.vy - Mul(ny, k2)]]

\* the pairs << i, j >>, i < j, of 1..n in the order of two nested for loops
RECURSIVE pairsFrom(_, _, _)
pairsFrom(i, j, n) ==
    IF i >= n THEN << >>
    ELSE IF j > n THEN pairsFrom(i + 1, i + 2, n)
    ELSE << << i, j >> >> \o pairsFrom(i, j + 1, n)

RECURSIVE collideAll(_, _, _, _)
collideAll(shapes, circles, pairs, k) ==
    IF k > Len(pairs) THEN shapes
    ELSE collideAll(collideCircles(shapes, circles[pairs[k][1]], circles[pairs[k][2]]),
                    circles, pairs, k + 1)

checkShapeCollisions(s) ==
    LET circles == moveableCircles(s.shapes)
    IN  [s EXCEPT !.shapes =
            collideAll(s.shapes, circles, pairsFrom(1, 2, Len(circles)), 1)]

updateShapes(s, dt) ==
    checkShapeCollisions(
        [s EXCEPT !.shapes = [k \in 1 .. Len(s.shapes) |-> moveShape(s, s.shapes[k], dt)]])

(***************************************************************************)
(* Particle against shape.  x and y are the particle's position as read    *)
(* once by handleShapeCollisions, before the first shape; k is the index   *)
(* of the shape in the shape list.                                         *)
(***************************************************************************)
\* positions[idx] += px, positions[idx + 1] += py, and the new velocity
moveParticle(s, idx, px, py, vx, vy) ==
    [s EXCEPT !.positions  = Store(Store(s.positions, idx, s.positions[idx] + px),
                                   idx + 1, s.positions[idx + 1] + py),
              !.velocities = Store(Store(s.velocities, idx, vx), idx + 1, vy)]

\* Math.max(lo, Math.min(v, hi))
clamp(lo, v, hi) == Max(lo, Min(v, hi))

handleStaticRectCollision(s, idx, k, x, y, r) ==
    LET shape    == s.shapes[k]
        closestX == clamp(shape.x, x, shape.x + shape.width)
        closestY == clamp(shape.y, y, shape.y + shape.height)
        dx       == x - closestX
        dy       == y - closestY
        dist     == Sqrt(dx * dx + dy * dy)
    IN  IF ~(SqSumBelow(dx, dy, r) /\ dist > DistFloor) THEN s
        ELSE LET nx      == Div(dx, dist)
                 ny      == Div(dy, dist)
                 overlap == r - dist
                 vx      == s.velocities[idx]
                 vy      == s.velocities[idx + 1]
                 dot     == Mul(vx, nx) + Mul(vy, ny)
             IN  moveParticle(s, idx, Mul(nx, overlap), Mul(ny, overlap),
                              Mul(vx - 2 * Mul(dot, nx), s.damping),
                              Mul(vy - 2 * Mul(dot, ny), s.damping))

\* handleRotatingRectCollision, in the stages of its body.
\* The reflection off the moving surface: the relative velocity << relX, relY >>
\* and its component dot along the normal
rotatingReflect(s, idx, worldNx, worldNy, overlap, surfaceVelX, surfaceVelY, relX, relY, dot) ==
    moveParticle(s, idx, Mul(worldNx, overlap), Mul(worldNy, overlap),
        IF dot < 0
        THEN Mul(relX - 2 * Mul(dot, worldNx) + surfaceVelX, s.damping)
        ELSE s.velocities[idx],
        IF dot < 0
        THEN Mul(relY - 2 * Mul(dot, worldNy) + surfaceVelY, s.damping)
        ELSE s.velocities[idx + 1])

\* the velocity relative to the surface, which moves at << surfaceVelX, surfaceVelY >>
rotatingRelative(s, idx, worldNx, worldNy, overlap, surfaceVelX, surfaceVelY) ==
    rotatingReflect(s, idx, worldNx, worldNy, overlap, surfaceVelX, surfaceVelY,
        s.velocities[idx] - surfaceVelX,
        s.velocities[idx + 1] - surfaceVelY,
        Mul(s.velocities[idx] - surfaceVelX, worldNx)
            + Mul(s.velocities[idx + 1] - surfaceVelY, worldNy))

\* the push out along the world-space normal, and the surface velocity at the
\* closest point, whose offset from the centre is << radiusX, radiusY >>
rotatingPush(s, idx, rotationSpeed, cos, sin, closestX, closestY, localNx, localNy, overlap) ==
    rotatingRelative(s, idx,
        Mul(cos, localNx) + Mul(sin, localNy),
        Mul(cos, localNy) - Mul(sin, localNx),
        overlap,
        -Mul(Mul(sin, closestX) + Mul(cos, closestY), rotationSpeed),
        Mul(Mul(cos, closestX) - Mul(sin, closestY), rotationSpeed))

\* the test of the distance dist from the closest point
rotatingHit(s, idx, rotationSpeed, cos, sin, closestX, closestY, dx, dy, dist, r) ==
    IF ~(SqSumBelow(dx, dy, r) /\ dist > DistFloor) THEN s
    ELSE rotatingPush(s, idx, rotationSpeed, cos, sin, closestX, closestY,
                      Div(dx, dist), Div(dy, dist), r - dist)

\* the offset << dx, dy >> from the closest point of the rectangle, in local space
rotatingOffset(s, idx, rotationSpeed, cos, sin, closestX, closestY, dx, dy, r) ==
    rotatingHit(s, idx, rotationSpeed, cos, sin, closestX, closestY, dx, dy,
                Sqrt(dx * dx + dy * dy), r)

\* the closest point of the rectangle to << localX, localY >>, in local space
rotatingClosest(s, idx, rotationSpeed, cos, sin, halfW, halfH, localX, localY, r) ==
    rotatingOffset(s, idx, rotationSpeed, cos, sin,
        clamp(-halfW, localX, halfW), clamp(-halfH, localY, halfH),
        localX - clamp(-halfW, localX, halfW),
        localY - clamp(-halfH, localY, halfH), r)

\* the particle in the rectangle's local space, << px, py >> being its offset
\* from the centre of the rectangle
rotatingLocal(s, idx, shape, cos, sin, px, py, r) ==
    rotatingClosest(s, idx, shape.rotationSpeed, cos, sin,
        shape.width \div 2, shape.height \div 2,
        Mul(cos, px) - Mul(sin, py), Mul(sin, px) + Mul(cos, py), r)

handleRotatingRectCollision(s, idx, k, x, y, r) ==
    rotatingLocal(s, idx, s.shapes[k],
        Cos(-s.shapes[k].angle), Sin(-s.shapes[k].angle),
        x - (s.shapes[k].x + s.shapes[k].width \div 2),
        y - (s.shapes[k].y + s.shapes[k].height \div 2), r)

handleCircleCollision(s, idx, k, x, y, r) ==
    LET shape          == s.shapes[k]
        dx             == x - shape.x
        dy             == y - shape.y
        combinedRadius == r + shape.radius
        distSq         == dx * dx + dy * dy
    IN  IF ~(SqSumBelow(dx, dy, combinedRadius) /\ distSq > SqFloor) THEN s
        ELSE LET dist    == Sqrt(distSq)
                 nx      == Div(dx, dist)
                 ny      == Div(dy, dist)
                 overlap == combinedRadius - dist
                 vx      == s.velocities[idx]
                 vy      == s.velocities[idx + 1]
                 dot     == Mul(vx, nx) + Mul(vy, ny)
                 circleMass       == IF shape.mass # 0 THEN shape.mass ELSE FP(1000)
                 momentumTransfer == Div(2 * dot, FP(1) + circleMass)
                 pushed  == moveParticle(s, idx, Mul(nx, overlap), Mul(ny, overlap),
                                IF dot < 0 THEN Mul(vx - 2 * Mul(dot, nx), s.damping)
                                           ELSE vx,
                                IF dot < 0 THEN Mul(vy - 2 * Mul(dot, ny), s.damping)
                                           ELSE vy)
             IN  IF dot < 0 /\ shape.moveable
                 THEN [pushed EXCEPT
                         !.shapes[k].vx = shape.vx - Mul(nx, momentumTransfer) \div 2,
                         !.shapes[k].vy = shape.vy - Mul(ny, momentumTransfer) \div 2]
                 ELSE pushed

\* the body of the loop of handleShapeCollisions for shape k: the test of
\* the particle, taken to be at << x, y >>, against that shape
shapeTest(s, idx, k, x, y) ==
    IF s.shapes[k].type = "rect"
    THEN IF s.shapes[k].rotating /\ s.shapes[k].rotationSpeed # 0
         THEN handleRotatingRectCollision(s, idx, k, x, y, particleRadius)
         ELSE handleStaticRectCollision(s, idx, k, x, y, particleRadius)
    ELSE IF s.shapes[k].type = "circle"
    THEN handleCircleCollision(s, idx, k, x, y, particleRadius)
    ELSE s

\* the loop of handleShapeCollisions over the shapes from the k-th on
RECURSIVE shapeLoop(_, _, _, _, _)
shapeLoop(s, idx, k, x, y) ==
    IF k > Len(s.shapes) THEN s
    ELSE shapeLoop(shapeTest(s, idx, k, x, y), idx, k + 1, x, y)

handleShapeCollisions(s, idx) ==
    shapeLoop(s, idx, 1, s.positions[idx], s.positions[idx + 1])

(***************************************************************************)
(* Particle against particle                                               *)
(***************************************************************************)
\* the particles whose coordinates are numbers: an index at or beyond the end
\* of the array reads undefined, every comparison on it is false and every
\* write to it is ignored
stored(s, i) == i * 2 + 1 \in DOMAIN s.positions

\* the key "NaN,NaN": Math.floor(undefined / cellSize) is NaN for both
\* coordinates of a particle read at or beyond the end of the array
NaNKey == << >>

\* the cell << cellX, cellY >> of particle i
cellOf(s, i) ==
    IF ~stored(s, i) THEN NaNKey
    ELSE << FloorDiv(s.positions[i * 2], cellSize),
            FloorDiv(s.positions[i * 2 + 1], cellSize) >>

\* buildSpatialHash: the occupied cells in insertion order, each with its
\* particles in index order
RECURSIVE hashFrom(_, _, _)
hashFrom(s, i, grid) ==
    IF i >= s.particleCount THEN grid
    ELSE LET key == cellOf(s, i)
             at  == {c \in 1 .. Len(grid) : grid[c].key = key}
         IN  IF at = {}
             THEN hashFrom(s, i + 1, Append(grid, [key |-> key, particles |-> << i >>]))
             ELSE hashFrom(s, i + 1,
                      [c \in 1 .. Len(grid) |->
                          IF c \in at
                          THEN [grid[c] EXCEPT !.particles = Append(grid[c].particles, i)]
                          ELSE grid[c]])

buildSpatialHash(s) == hashFrom(s, 0, << >>)

\* the particles of the cell with the given key, << >> if there is none
cellParticles(grid, key) ==
    LET at == {c \in 1 .. Len(grid) : grid[c].key = key}
    IN  IF at = {} THEN << >> ELSE grid[CHOOSE c \in at : TRUE].particles

\* the four neighbour keys of detectCollisionsOptimized, in its order; NaN + 1
\* and NaN - 1 are NaN, so the neighbours of "NaN,NaN" are "NaN,NaN"
neighbors(key) ==
    IF key = NaNKey THEN << NaNKey, NaNKey, NaNKey, NaNKey >>
    ELSE << << key[1] + 1, key[2] >>, << key[1], key[2] + 1 >>,
            << key[1] + 1, key[2] + 1 >>, << key[1] - 1, key[2] + 1 >> >>

\* the concatenation of a sequence of sequences
RECURSIVE flatten(_)
flatten(ss) == IF ss = << >> THEN << >> ELSE Head(ss) \o flatten(Tail(ss))

\* the calls handleCollision(p1, p2) of detectCollisionsOptimized, in order
collisionTests(grid) ==
    flatten([c \in 1 .. Len(grid) |->
        LET ps == grid[c].particles
        IN  flatten([a \in 1 .. Len(ps) |->
                [b \in 1 .. Len(ps) - a |-> << ps[a], ps[a + b] >>]
                \o flatten([n \in 1 .. 4 |->
                       LET qs == cellParticles(grid, neighbors(grid[c].key)[n])
                       IN  [b \in 1 .. Len(qs) |-> << ps[a], qs[b] >>]])])])

\* the impulse of an approaching pair
\* a variant of the impulse that is half of what the damping gives; C18 must
\* reject it
pairImpulseHalved(s, dvDotN) == Mul(dvDotN, s.damping) \div 2

pairImpulse(s, dvDotN) == Mul(dvDotN, s.damping)

handleCollision(s, i, j, collisionDist) ==
    LET idx1   == i * 2
        idx2   == j * 2
        dx     == s.positions[idx2] - s.positions[idx1]
        dy     == s.positions[idx2 + 1] - s.positions[idx1 + 1]
        distSq == dx * dx + dy * dy
    IN  IF ~stored(s, i) \/ ~stored(s, j) THEN s
        ELSE IF ~(SqSumBelow(dx, dy, collisionDist) /\ distSq > SqFloor) THEN s
        ELSE LET dist        == Sqrt(distSq)
                 nx          == Div(dx, dist)
                 ny          == Div(dy, dist)
                 overlap     == collisionDist - dist
                 separationX == Mul(nx, overlap) \div 2
                 separationY == Mul(ny, overlap) \div 2
                 dvDotN      == Mul(s.velocities[idx2] - s.velocities[idx1], nx)
                                + Mul(s.velocities[idx2 + 1] - s.velocities[idx1 + 1], ny)
                 impulse     == IF dvDotN < 0 THEN pairImpulse(s, dvDotN) ELSE 0
             IN  [s EXCEPT
                    !.positions =
                        [s.positions EXCEPT ![idx1]     = @ - separationX,
                                            ![idx1 + 1] = @ - separationY,
                                            ![idx2]     = @ + separationX,
                                            ![idx2 + 1] = @ + separationY],
                    !.velocities =
                        [s.velocities EXCEPT ![idx1]     = @ + Mul(nx, impulse),
                                             ![idx1 + 1] = @ + Mul(ny, impulse),
                                             ![idx2]     = @ - Mul(nx, impulse),
                                             ![idx2 + 1] = @ - Mul(ny, impulse)]]

\* the calls handleCollision of the tests from the k-th on, in order.  The
\* loop runs on a simulation whose arrays exist; reading the field first makes
\* the evaluation proceed test by test.
RECURSIVE collideFrom(_, _, _)
collideFrom(s, tests, k) ==
    IF ~s.allocated \/ k > Len(tests) THEN s
    ELSE collideFrom(handleCollision(s, tests[k][1], tests[k][2], particleRadius * 2),
                     tests, k + 1)

detectCollisionsOptimized(s) == collideFrom(s, collisionTests(buildSpatialHash(s)), 1)

(***************************************************************************)
(* Sensor.  Coordinates are in 1/Q units and the cross products of         *)
(* lineIntersectsLine in 1/Q^2 units; the quotients t and u are compared   *)
(* with 0 and 1 only, which the signs of numerator and denominator decide. *)
(***************************************************************************)
\* the 0.0001 floor on |denom|, in 1/Q^2 units: the least integer above it
DenomFloor == (Q * Q) \div 10000 + 1

\* 0 <= n / d <= 1, for d # 0
inUnit(n, d) == IF d > 0 THEN 0 <= n /\ n <= d ELSE d <= n /\ n <= 0

lineIntersectsLine(x1, y1, x2, y2, x3, y3, x4, y4) ==
    LET denom == (x1 - x2) * (y3 - y4) - (y1 - y2) * (x3 - x4)
    IN  IF Abs(denom) < DenomFloor THEN FALSE
        ELSE /\ inUnit((x1 - x3) * (y3 - y4) - (y1 - y3) * (x3 - x4), denom)
             /\ inUnit(-((x1 - x2) * (y1 - y3) - (y1 - y2) * (x1 - x3)), denom)

lineIntersectsRect(x1, y1, x2, y2, rx, ry, rw, rh) ==
    \/ x1 >= rx /\ x1 <= rx + rw /\ y1 >= ry /\ y1 <= ry + rh
    \/ x2 >= rx /\ x2 <= rx + rw /\ y2 >= ry /\ y2 <= ry + rh
    \/ lineIntersectsLine(x1, y1, x2, y2, rx, ry, rx + rw, ry)
    \/ lineIntersectsLine(x1, y1, x2, y2, rx + rw, ry, rx + rw, ry + rh)
    \/ lineIntersectsLine(x1, y1, x2, y2, rx + rw, ry + rh, rx, ry + rh)
    \/ lineIntersectsLine(x1, y1, x2, y2, rx, ry + rh, rx, ry)

\* the cell of the hit point << hitX, hitY >>, -1 if the point is outside the
\* sensor or the cell outside the grid of len cells
hitCell(sensor, len, hitX, hitY) ==
    IF /\ hitX >= sensor.x /\ hitX < sensor.x + sensor.width
       /\ hitY >= sensor.y /\ hitY < sensor.y + sensor.height
       /\ FloorDiv(hitY - sensor.y, sensorResolution) * sensorWidth(sensor)
              + FloorDiv(hitX - sensor.x, sensorResolution) < len
    THEN FloorDiv(hitY - sensor.y, sensorResolution) * sensorWidth(sensor)
            + FloorDiv(hitX - sensor.x, sensorResolution)
    ELSE -1

\* the index checkSensorHit increments for the segment, -1 if it increments none
sensorIndex(sensor, len, x1, y1, x2, y2) ==
    IF lineIntersectsRect(x1, y1, x2, y2, sensor.x, sensor.y, sensor.width, sensor.height)
    THEN hitCell(sensor, len, (x2 + x1) \div 2, (y2 + y1) \div 2)
    ELSE -1

\* a variant of the increment without the cap; C16 must reject it
bumpUncapped(v) == v + FP(1)

\* Math.min(v + 1.0, 20)
bump(v) == Min(v + FP(1), FP(20))

\* the write of checkSensorHit to the cell index, if there is one
hitAt(s, index) ==
    IF index = -1 THEN s ELSE [s EXCEPT !.sensorHits[1][index] = bump(@)]

checkSensorHit(s, x1, y1, x2, y2) ==
    hitAt(s, sensorIndex(s.sensor[1], Length(s.sensorHits[1]), x1, y1, x2, y2))

\* v * 0.99
decay(v) == RDiv(v * 99, 100)

\* the decay loop of update over the sensor grid
decaySensor(s) ==
    IF s.sensorHits = << >> THEN s
    ELSE [s EXCEPT !.sensorHits =
             << [c \in DOMAIN s.sensorHits[1] |-> decay(s.sensorHits[1][c])] >>]

(***************************************************************************)
(* Force field                                                             *)
(***************************************************************************)
\* the force-field cell of particle i, -1 if the particle is outside the grid
fieldIndex(s, i) ==
    IF /\ s.positions[i * 2] >= 0
       /\ FloorDiv(s.positions[i * 2], forceFieldResolution) < s.forceFieldWidth
       /\ s.positions[i * 2 + 1] >= 0
       /\ FloorDiv(s.positions[i * 2 + 1], forceFieldResolution) < s.forceFieldHeight
    THEN FloorDiv(s.positions[i * 2 + 1], forceFieldResolution) * s.forceFieldWidth
            + FloorDiv(s.positions[i * 2], forceFieldResolution)
    ELSE -1

\* Math.sqrt(vx * vx + vy * vy) * 0.01
pressureOf(vx, vy) == RDiv(Sqrt(vx * vx + vy * vy), 100)

\* what the particles from the i-th on add to cell c
RECURSIVE pressure(_, _, _)
pressure(s, c, i) ==
    IF i >= s.particleCount THEN 0
    ELSE IF stored(s, i) /\ fieldIndex(s, i) = c
    THEN pressureOf(s.velocities[i * 2], s.velocities[i * 2 + 1]) + pressure(s, c, i + 1)
    ELSE pressure(s, c, i + 1)

\* the value and the count a neighbour << x, y >> adds to an average
fieldAt(field, w, h, x, y) ==
    IF x >= 0 /\ x < w /\ y >= 0 /\ y < h THEN field[y * w + x] ELSE 0

inField(w, h, x, y) == IF x >= 0 /\ x < w /\ y >= 0 /\ y < h THEN 1 ELSE 0

\* the average of the cell << x, y >> and its neighbours inside the grid
smoothCell(field, w, h, x, y) ==
    RDiv(fieldAt(field, w, h, x - 1, y - 1) + fieldAt(field, w, h, x, y - 1)
           + fieldAt(field, w, h, x + 1, y - 1) + fieldAt(field, w, h, x - 1, y)
           + fieldAt(field, w, h, x, y) + fieldAt(field, w, h, x + 1, y)
           + fieldAt(field, w, h, x - 1, y + 1) + fieldAt(field, w, h, x, y + 1)
           + fieldAt(field, w, h, x + 1, y + 1),
         inField(w, h, x - 1, y - 1) + inField(w, h, x, y - 1)
           + inField(w, h, x + 1, y - 1) + inField(w, h, x - 1, y)
           + inField(w, h, x, y) + inField(w, h, x + 1, y)
           + inField(w, h, x - 1, y + 1) + inField(w, h, x, y + 1)
           + inField(w, h, x + 1, y + 1))

smoothForceField(s) ==
    [s EXCEPT !.forceField =
        << [c \in DOMAIN s.forceField[1] |->
               IF c < s.forceFieldWidth * s.forceFieldHeight
               THEN smoothCell(s.forceField[1], s.forceFieldWidth, s.forceFieldHeight,
                               c % s.forceFieldWidth, c \div s.forceFieldWidth)
               ELSE 0] >>]

\* updateForceField; the grid exists whenever showForceField is set
updateForceField(s) ==
    smoothForceField(
        [s EXCEPT !.forceField = << [c \in DOMAIN s.forceField[1] |-> pressure(s, c, 0)] >>])

\* the part of update between the emitter and the particle loop
\* a variant of the grid phase that rebuilds the force field whenever the
\* grid exists, shown or not; C22 must reject it
gridPhaseWhenAllocated(s) ==
    decaySensor(IF s.forceField # << >> THEN updateForceField(s) ELSE s)

gridPhase(s) == decaySensor(IF s.showForceField THEN updateForceField(s) ELSE s)

(***************************************************************************)
(* The step                                                                *)
(***************************************************************************)
\* the wrap of one coordinate into the domain of size w
wrapCoord(p, w) == IF p < 0 THEN p + w ELSE IF p >= w THEN p - w ELSE p

\* the clamp of one coordinate, with the velocity it leaves: << p, v >>
reflectCoord(p, v, lo, hi, damping) ==
    IF p <= lo THEN << lo, Mul(Abs(v), damping) >>
    ELSE IF p >= hi THEN << hi, -Mul(Abs(v), damping) >>
    ELSE << p, v >>

\* the sensor test of the particle loop, for the move of the particle at idx
\* to << x, y >>
sensed(s, idx, x, y) ==
    IF s.sensor = << >> THEN s
    ELSE checkSensorHit(s, s.positions[idx], s.positions[idx + 1], x, y)

\* the body of the particle loop of update, for particle i
stepParticle(s, i, dt) ==
    IF ~stored(s, i) THEN s
    ELSE LET idx == i * 2
             x   == s.positions[idx] + Mul(s.velocities[idx], dt)
             y   == s.positions[idx + 1] + Mul(s.velocities[idx + 1], dt)
             hx  == IF s.wrapEdges
                    THEN << wrapCoord(x, s.bounds.width), s.velocities[idx] >>
                    ELSE reflectCoord(x, s.velocities[idx], particleRadius,
                                      s.bounds.width - particleRadius, s.damping)
             hy  == IF s.wrapEdges
                    THEN << wrapCoord(y, s.bounds.height), s.velocities[idx + 1] >>
                    ELSE reflectCoord(y, s.velocities[idx + 1], particleRadius,
                                      s.bounds.height - particleRadius, s.damping)
         IN  handleShapeCollisions(
                 [sensed(s, idx, x, y)
                    EXCEPT !.positions  = [s.positions EXCEPT ![idx] = hx[1],
                                                                 ![idx + 1] = hy[1]],
                           !.velocities = [s.velocities EXCEPT ![idx] = hx[2],
                                                               ![idx + 1] = hy[2]]],
                 idx)

RECURSIVE particleLoop(_, _, _)
particleLoop(s, i, dt) ==
    IF i >= s.particleCount THEN s
    ELSE particleLoop(stepParticle(s, i, dt), i + 1, dt)

\* the scaled step of update(deltaTime)
scaled(s, deltaTime) == Mul(deltaTime, s.speedMultiplier)

\* the force-field rebuild of update, if the field is shown
fieldPhase(s) == IF s.showForceField THEN updateForceField(s) ELSE s

\* a variant of the phases that rebuilds the force field after the particles
\* have moved and collided instead of before; C26 must reject it
particlePhaseFieldLast(em, dt) ==
    [ sim   |-> fieldPhase(detectCollisionsOptimized(
                               particleLoop(decaySensor(em.sim), 0, dt))),
      mid   |-> em.sim,
      slots |-> em.slots ]

\* update from its emitter phase on: em.sim is the simulation after
\* updateEmitter and em.slots the indices it passed to emitParticle
particlePhase(em, dt) ==
    [ sim   |-> detectCollisionsOptimized(particleLoop(gridPhase(em.sim), 0, dt)),
      mid   |-> em.sim,
      slots |-> em.slots ]

\* update(deltaTime) with what it did on the way: the final simulation, the
\* simulation after the emitter phase and the slots emitted into
phases(s, deltaTime, tape) ==
    particlePhase(
        emission(updateShapes([s EXCEPT !.time = s.time + scaled(s, deltaTime)],
                              scaled(s, deltaTime)),
                 scaled(s, deltaTime), tape),
        scaled(s, deltaTime))

update(s, deltaTime, tape) == phases(s, deltaTime, tape).sim

(***************************************************************************)
(* The state machine.  sim is the ParticleSimulation object the page       *)
(* holds.  The other variables record what the last operation did:         *)
(*   lastOp   the operation that produced the state;                       *)
(*   placing  the last init: its mode, the particle count it was asked     *)
(*            for, whether its placement path ran (it does not when the    *)
(*            emitter owns the arrays), and the attempts and placements of *)
(*            the rejection-sampling loop;                                 *)
(*   emitted  the indices the last operation passed to emitParticle;       *)
(*   mid      the particle state right after the emitter phase, and the    *)
(*            scaled step, if the last operation was an update;            *)
(*   clock    the scaled time stepped since the emitter was attached, and  *)
(*            whether only update has run since;                           *)
(*   frames   the number of updates so far;                                *)
(*   ui       the page's preset selection: currentPreset, the preset of    *)
(*            the last preset button clicked (<< >> before the first       *)
(*            click), and indexed, the preset at currentPresetIndex.       *)
(***************************************************************************)
VARIABLES sim, lastOp, placing, emitted, mid, clock, frames, ui

vars == << sim, lastOp, placing, emitted, mid, clock, frames, ui >>

\* the largest particle count a preset or the count slider asks for
MaxParticles == 2

\* the number of updates explored
MaxFrames == 2

\* the canvas rectangle, in pixels
CanvasWidth == 400

CanvasHeight == 300

\* the values of deltaTime: 0.25 s, and the double nearest to 0.3 s at
\* MantissaBits bits (19/64)
DtSamples == {Q \div 4, RoundRat(3 * Q, 10)}

InitTypes == {"center", "left", "random", "static"}

\* the shape lists of the presets
ShapeLists ==
    { << >>,
      << Rect(0, 0, FP(CanvasWidth), FP(CanvasHeight)) >>,
      << Rect(0, 0, particleRadius, FP(CanvasHeight)) >>,
      << Circle(FP(CanvasWidth) \div 2, FP(CanvasHeight) \div 2, FP(30), FALSE) >> }

\* the emitters of the presets
Emitters ==
    { << Emitter(FP(50), FP(50), FP(10), FP(10), FP(100), 5) >>,
      << Emitter(FP(50), FP(50), FP(10), FP(10), FP(100), 2) >>,
      << Emitter(FP(50), FP(50), FP(10), FP(10), FP(100), 1) >> }

NoPlacing == [initType |-> "none", requested |-> 0, ran |-> FALSE,
              attempts |-> 0, placed |-> 0]

NoMid == [positions |-> << >>, velocities |-> << >>, activeParticles |-> 0, dt |-> 0]

\* the selection of a page whose presets play no part
NoUi == [currentPreset |-> << >>, indexed |-> << >>]

\* what an init(initType) in state s records in placing
placingOf(s, initType, tape) ==
    IF emitterManaged(s) THEN NoPlacing
    ELSE IF initType = "static"
    THEN [initType |-> initType, requested |-> s.particleCount,
          ran |-> TRUE, attempts |-> 0, placed |-> 0]
    ELSE LET r == placement([s EXCEPT !.positions  = NewArray(s.particleCount * 2),
                                      !.velocities = NewArray(s.particleCount * 2)],
                            initType, tape)
         IN  [initType |-> initType, requested |-> s.particleCount,
              ran |-> TRUE, attempts |-> r.attempts, placed |-> r.placed]

\* the state ParticleAccelerator.init leaves before its first init call:
\* a new simulation with the canvas bounds, the preset's shapes and its
\* wrap flag assigned
Init ==
    \E n \in 1 .. MaxParticles, shapes \in ShapeLists, wrap \in BOOLEAN :
        /\ sim = [constructor(n) EXCEPT
                     !.bounds    = [width |-> FP(CanvasWidth), height |-> FP(CanvasHeight)],
                     !.shapes    = shapes,
                     !.wrapEdges = wrap]
        /\ lastOp = "new"
        /\ placing = NoPlacing
        /\ emitted = << >>
        /\ mid = NoMid
        /\ clock = [T |-> 0, pure |-> FALSE]
        /\ frames = 0
        /\ ui = NoUi

\* simulation.init(initType), which the page calls on a simulation it has just
\* constructed or given an emitter
InitSim(initType, tape) ==
    /\ lastOp \in {"new", "setEmitter"}
    /\ sim' = init(sim, initType, tape)
    /\ placing' = placingOf(sim, initType, tape)
    /\ lastOp' = "init"
    /\ clock' = [clock EXCEPT !.pure = clock.pure /\ emitterManaged(sim)]
    /\ emitted' = << >>
    /\ mid' = NoMid
    /\ UNCHANGED << frames, ui >>

\* simulation.setEmitter(emitter)
SetEmitter(emitter) ==
    /\ sim' = setEmitter(sim, emitter)
    /\ lastOp' = "setEmitter"
    /\ clock' = [T |-> 0, pure |-> TRUE]
    /\ placing' = NoPlacing
    /\ emitted' = << >>
    /\ mid' = NoMid
    /\ UNCHANGED << frames, ui >>

\* a variant of resetShapes that puts a moveable circle back in place but
\* leaves it its velocity; C14 must reject it
resetShapesKeepsVelocity(s) ==
    [s EXCEPT !.shapes =
        [k \in 1 .. Len(s.shapes) |->
            IF k > Len(s.initialShapeStates) THEN s.shapes[k]
            ELSE LET shape == s.shapes[k]
                     initialState == s.initialShapeStates[k]
                     a == [shape EXCEPT !.x = initialState.x, !.y = initialState.y]
                 IN  IF shape.rotating THEN [a EXCEPT !.angle = initialState.angle]
                     ELSE a]]

\* resetShapes(): every shape back to its recorded initial state
resetShapes(s) ==
    [s EXCEPT !.shapes =
        [k \in 1 .. Len(s.shapes) |->
            IF k > Len(s.initialShapeStates) THEN s.shapes[k]
            ELSE LET shape == s.shapes[k]
                     initialState == s.initialShapeStates[k]
                     a == [shape EXCEPT !.x = initialState.x, !.y = initialState.y]
                     b == IF shape.type = "circle" /\ shape.moveable
                          THEN [a EXCEPT !.vx = initialState.vx, !.vy = initialState.vy]
                          ELSE a
                 IN  IF shape.rotating THEN [b EXCEPT !.angle = initialState.angle]
                     ELSE b]]

\* the record addShape keeps of a shape
snapshot(shape) ==
    [ x |-> shape.x, y |-> shape.y, width |-> shape.width, height |-> shape.height,
      radius |-> shape.radius, vx |-> shape.vx, vy |-> shape.vy,
      angle |-> shape.angle, type |-> shape.type ]

addShape(s, shape) ==
    [s EXCEPT !.shapes             = Append(s.shapes, shape),
              !.initialShapeStates = Append(s.initialShapeStates, snapshot(shape))]

\* addShape for each shape of the list, from the k-th on
RECURSIVE addShapes(_, _, _)
addShapes(s, shapes, k) ==
    IF k > Len(shapes) THEN s ELSE addShapes(addShape(s, shapes[k]), shapes, k + 1)

clearShapes(s) == [s EXCEPT !.shapes = << >>, !.initialShapeStates = << >>]

setShowForceField(s, show) ==
    IF show /\ s.forceField = << >>
    THEN initForceField([s EXCEPT !.showForceField = show])
    ELSE [s EXCEPT !.showForceField = show]

\* ParticleAccelerator.reset(particleCount) with the current preset's initType
reset(s, particleCount, initType, tape) ==
    init([resetShapes(s) EXCEPT !.particleCount = particleCount], initType, tape)

Reset(particleCount, initType, tape) ==
    /\ sim.allocated
    /\ sim' = reset(sim, particleCount, initType, tape)
    /\ placing' = placingOf([resetShapes(sim) EXCEPT !.particleCount = particleCount],
                            initType, tape)
    /\ lastOp' = "reset"
    /\ clock' = [clock EXCEPT !.pure = FALSE]
    /\ emitted' = << >>
    /\ mid' = NoMid
    /\ UNCHANGED << frames, ui >>

\* the step to the state an update leaves, f being its phases
UpdateTo(f, dt) ==
    /\ sim' = f.sim
    /\ emitted' = f.slots
    /\ mid' = [positions |-> f.mid.positions, velocities |-> f.mid.velocities,
               activeParticles |-> f.mid.activeParticles, dt |-> dt]
    /\ lastOp' = "update"
    /\ clock' = [clock EXCEPT !.T = clock.T + dt]
    /\ frames' = frames + 1
    /\ UNCHANGED << placing, ui >>

\* simulation.update(deltaTime), called by animate once the simulation is set up
Update(deltaTime, tape) ==
    /\ sim.allocated
    /\ frames < MaxFrames
    /\ UpdateTo(phases(sim, deltaTime, tape), scaled(sim, deltaTime))

\* the tapes an operation in the current state can read
tapesOfUpdate == IF sim.emitter = << >> THEN {NoTape} ELSE Tapes

tapesOfInit(particleCount, initType) ==
    IF emitterManaged(sim) \/ initType = "static" \/ particleCount = 0
    THEN {NoTape} ELSE Tapes

\* the operations on a simulation that has no emitter
Next ==
    \/ \E initType \in InitTypes : \E tape \in tapesOfInit(sim.particleCount, initType) :
           InitSim(initType, tape)
    \/ \E n \in 0 .. MaxParticles, initType \in InitTypes :
           \E tape \in tapesOfInit(n, initType) : Reset(n, initType, tape)
    \/ \E deltaTime \in DtSamples : Update(deltaTime, NoTape)

Spec == Init /\ [][Next]_vars

\* the operations on a simulation whose preset may attach an emitter
NextEmitter ==
    \/ \E emitter \in Emitters : SetEmitter(emitter)
    \/ \E initType \in InitTypes : \E tape \in tapesOfInit(sim.particleCount, initType) :
           lastOp = "setEmitter" /\ InitSim(initType, tape)
    \/ \E n \in 0 .. MaxParticles, initType \in InitTypes :
           \E tape \in tapesOfInit(n, initType) : Reset(n, initType, tape)
    \/ \E deltaTime \in DtSamples : \E tape \in tapesOfUpdate : Update(deltaTime, tape)

SpecEmitter == Init /\ [][NextEmitter]_vars

(***************************************************************************)
(* The page: the handlers of main.js and ui.js that build a simulation     *)
(* from a preset.  A preset is a record of presets.json; a field the file  *)
(* leaves out is << >>, a field it gives is the sequence of its value.     *)
(* Every load reads the preset as the file wrote it.                       *)
(***************************************************************************)
Preset(particles, initType, shapes, sensor, emitter, wrapEdges, showForceField, speed, damping) ==
    [ particles |-> particles, initType |-> initType, shapes |-> shapes,
      sensor |-> sensor, emitter |-> emitter, wrapEdges |-> wrapEdges,
      showForceField |-> showForceField, speed |-> speed, damping |-> damping ]

\* the canvas rectangle as bounds
canvasBounds == [width |-> FP(CanvasWidth), height |-> FP(CanvasHeight)]

\* field || default
orDefault(field, default) ==
    IF field = << >> \/ field[1] = 0 THEN default ELSE field[1]

\* field !== undefined ? field : default
definedOr(field, default) == IF field = << >> THEN default ELSE field[1]

\* a copy of the emitter with a coordinate of -1 moved to the canvas centre
centred(emitter) ==
    [emitter EXCEPT !.x = IF @ = FP(-1) THEN canvasBounds.width \div 2 ELSE @,
                    !.y = IF @ = FP(-1) THEN canvasBounds.height \div 2 ELSE @]

\* the emitter a preset attaches: << >> if it has none
emitterOf(preset) ==
    IF preset.emitter = << >> THEN << >> ELSE << centred(preset.emitter[1]) >>

\* the sensor with a coordinate of -1 moved so that the sensor is centred
centredSensor(sensor) ==
    [sensor EXCEPT
        !.x = IF @ = FP(-1) THEN (canvasBounds.width - sensor.width) \div 2 ELSE @,
        !.y = IF @ = FP(-1) THEN (canvasBounds.height - sensor.height) \div 2 ELSE @]

\* ParticleAccelerator.init up to its call of simulation.init
pageSetup(preset) ==
    LET a == [constructor(preset.particles) EXCEPT
                 !.bounds = canvasBounds,
                 !.shapes = preset.shapes,
                 !.sensor = preset.sensor]
        b == IF preset.emitter # << >> THEN setEmitter(a, emitterOf(preset)) ELSE a
    IN  [b EXCEPT !.showForceField = definedOr(preset.showForceField, @),
                  !.wrapEdges      = preset.wrapEdges]

\* ParticleAccelerator.init for the first preset
pageInit(preset, tape) ==
    [init(pageSetup(preset), preset.initType, tape) EXCEPT
        !.speedMultiplier = orDefault(preset.speed, FP(1)),
        !.damping         = orDefault(preset.damping, Frac(8, 10))]

\* loadPreset up to its call of simulation.init
loadSetup(preset) ==
    LET a == addShapes([constructor(preset.particles) EXCEPT !.bounds = canvasBounds],
                       preset.shapes, 1)
        b == setEmitter([a EXCEPT !.sensor    = preset.sensor,
                                  !.wrapEdges = preset.wrapEdges],
                        emitterOf(preset))
    IN  IF b.sensor = << >> THEN b
        ELSE [b EXCEPT !.sensor = << centredSensor(b.sensor[1]) >>]

\* ParticleAccelerator.loadPreset
loadPreset(preset, tape) ==
    setShowForceField(
        [init(loadSetup(preset), preset.initType, tape) EXCEPT
            !.speedMultiplier = definedOr(preset.speed, FP(1)),
            !.damping         = definedOr(preset.damping, Frac(8, 10))],
        definedOr(preset.showForceField, FALSE))

\* UIController.reloadPresetWithParticleCount up to its call of simulation.init
reloadSetup(preset, newParticleCount) ==
    [constructor(newParticleCount) EXCEPT
        !.bounds = canvasBounds,
        !.shapes = preset.shapes,
        !.sensor = preset.sensor]

\* UIController.reloadPresetWithParticleCount
reloadPresetWithParticleCount(preset, newParticleCount, tape) ==
    [init(reloadSetup(preset, newParticleCount), preset.initType, tape) EXCEPT
        !.speedMultiplier = definedOr(preset.speed, @),
        !.damping         = definedOr(preset.damping, @)]

\* the tapes the init of a new simulation s can read
tapesOfNew(s, initType) ==
    IF emitterManaged(s) \/ initType = "static" \/ s.particleCount = 0
    THEN {NoTape} ELSE Tapes

\* the page after ParticleAccelerator.init has loaded one of the presets
InitPage(presets) ==
    \E preset \in presets : \E tape \in tapesOfNew(pageSetup(preset), preset.initType) :
        /\ sim = pageInit(preset, tape)
        /\ ui = [currentPreset |-> << >>, indexed |-> << preset >>]
        /\ lastOp = "pageInit"
        /\ placing = placingOf(pageSetup(preset), preset.initType, tape)
        /\ emitted = << >>
        /\ mid = NoMid
        /\ clock = [T |-> 0, pure |-> emitterManaged(pageSetup(preset))]
        /\ frames = 0

\* a click on the button of a preset
LoadPreset(preset, tape) ==
    /\ sim' = loadPreset(preset, tape)
    /\ ui' = [currentPreset |-> << preset >>, indexed |-> << preset >>]
    /\ lastOp' = "loadPreset"
    /\ placing' = placingOf(loadSetup(preset), preset.initType, tape)
    /\ clock' = [T |-> 0, pure |-> emitterManaged(loadSetup(preset))]
    /\ emitted' = << >>
    /\ mid' = NoMid
    /\ UNCHANGED frames

\* a change of the particle count slider
ReloadPreset(newParticleCount, tape) ==
    /\ ui.indexed # << >>
    /\ sim' = reloadPresetWithParticleCount(ui.indexed[1], newParticleCount, tape)
    /\ lastOp' = "reload"
    /\ placing' = placingOf(reloadSetup(ui.indexed[1], newParticleCount),
                            ui.indexed[1].initType, tape)
    /\ clock' = [T |-> 0, pure |-> FALSE]
    /\ emitted' = << >>
    /\ mid' = NoMid
    /\ UNCHANGED << frames, ui >>

\* a click on the clear shapes button
ClearShapes ==
    /\ sim' = clearShapes(sim)
    /\ lastOp' = "clearShapes"
    /\ emitted' = << >>
    /\ mid' = NoMid
    /\ UNCHANGED << placing, clock, frames, ui >>

\* toggleForceField(show)
SetShowForceField(show) ==
    /\ sim' = setShowForceField(sim, show)
    /\ lastOp' = "setShowForceField"
    /\ emitted' = << >>
    /\ mid' = NoMid
    /\ UNCHANGED << placing, clock, frames, ui >>

\* the initType the reset button passes: this.ui?.currentPreset?.initType || 'center'
resetInitType ==
    IF ui.currentPreset = << >> THEN "center" ELSE ui.currentPreset[1].initType

\* a click on the reset button, with the count of the particle count slider
ResetPage(particleCount, tape) == Reset(particleCount, resetInitType, tape)

\* a circle that moves, with the velocity the preset gives it
MovingCircle(x, y, r, vx, vy) == [Circle(x, y, r, TRUE) EXCEPT !.vx = vx, !.vy = vy]

\* a rectangle that turns at rotationSpeed radians per second
RotatingRect(x, y, w, h, rotationSpeed) ==
    [Rect(x, y, w, h) EXCEPT !.rotating = TRUE, !.rotationSpeed = rotationSpeed]

\* presets with shapes that move: a drifting circle next to a turning bar,
\* two circles on a collision course, and a circle in the path of a particle
ShapePresets ==
    { Preset(1, "static",
             << MovingCircle(FP(100), FP(100), FP(20), FP(40), FP(-20)),
                RotatingRect(FP(200), FP(150), FP(60), FP(10), FP(1)) >>,
             << >>, << >>, FALSE, << >>, << >>, << >>),
      Preset(2, "static",
             << MovingCircle(FP(100), FP(100), FP(20), FP(40), 0),
                MovingCircle(FP(150), FP(100), FP(20), FP(-40), 0) >>,
             << >>, << >>, TRUE, << >>, << >>, << >>),
      Preset(1, "random",
             << MovingCircle(FP(40), FP(30), FP(20), 0, 0) >>,
             << >>, << >>, FALSE, << >>, << FP(1) >>, << >>) }

InitShapes == InitPage(ShapePresets)

\* the operations of a page whose presets have shapes
NextShapes ==
    \/ \E preset \in ShapePresets :
           \E tape \in tapesOfNew(loadSetup(preset), preset.initType) :
               LoadPreset(preset, tape)
    \/ \E n \in 1 .. MaxParticles :
           \E tape \in tapesOfNew(reloadSetup(ui.indexed[1], n), ui.indexed[1].initType) :
               ReloadPreset(n, tape)
    \/ ClearShapes
    \/ \E n \in 0 .. MaxParticles :
           \E tape \in tapesOfInit(n, resetInitType) : ResetPage(n, tape)
    \/ \E deltaTime \in DtSamples : Update(deltaTime, NoTape)

SpecShapes == InitShapes /\ [][NextShapes]_vars

\* the particle count of the preset that fills one sensor cell
BurstParticles == 12

\* presets with a sensor: an emitter whose particles fly through a sensor
\* whose middle they pass, the same with the sensor next to the emitter, and
\* particles at rest on a sensor at the origin of a wrapped domain
GridPresets ==
    { Preset(2, "center", << >>, << Sensor(FP(58), FP(48), FP(4), FP(4)) >>,
             << Emitter(FP(50), FP(50), FP(10), FP(10), FP(100), 2) >>,
             FALSE, << TRUE >>, << >>, << >>),
      Preset(2, "center", << >>, << Sensor(FP(52), FP(48), FP(4), FP(4)) >>,
             << Emitter(FP(50), FP(50), FP(10), FP(10), FP(100), 2) >>,
             FALSE, << >>, << >>, << >>),
      Preset(BurstParticles, "static", << >>, << Sensor(0, 0, FP(4), FP(4)) >>,
             << >>, TRUE, << >>, << >>, << >>),
      Preset(2, "center", << >>, << >>,
             << Emitter(FP(50), FP(50), FP(10), FP(10), FP(100), 2) >>,
             FALSE, << >>, << >>, << >>),
      Preset(1, "center", << >>, << >>, << >>, FALSE, << >>, << >>, << >>) }

InitGridPage == InitPage(GridPresets)

\* the tapes an update of these presets reads: all cells 0, or all cells the
\* other sample
tapesOfGrids ==
    IF sim.emitter = << >> THEN {NoTape}
    ELSE {tape \in Tapes : \A k \in DOMAIN tape : tape[k] = tape[0]}

\* the operations of a page whose presets have a sensor
NextGrids ==
    \/ \E preset \in GridPresets :
           \E tape \in tapesOfNew(loadSetup(preset), preset.initType) :
               LoadPreset(preset, tape)
    \/ \E show \in BOOLEAN : SetShowForceField(show)
    \/ \E n \in 0 .. MaxParticles :
           \E tape \in tapesOfInit(n, resetInitType) : ResetPage(n, tape)
    \/ \E deltaTime \in DtSamples : \E tape \in tapesOfGrids : Update(deltaTime, tape)

SpecGrids == InitGridPage /\ [][NextGrids]_vars

(***************************************************************************)
(* handleCollision on its own: a pair of particles of every relative       *)
(* position, velocity and damping of the sets below                        *)
(***************************************************************************)
\* where the second particle is, relative to the first: overlapping along an
\* axis and obliquely, apart, and on the same point
PairOffsets ==
    { << FP(3), 0 >>, << 0, FP(3) >>, << -FP(3), 0 >>, << 0, -FP(2) >>,
      << FP(2), FP(2) >>, << -FP(1), FP(3) >>, << FP(5), 0 >>, << 0, 0 >> }

\* the velocity components of the two particles, pixels per second
PairSpeeds == {-FP(40), 0, FP(40)}

\* the values of the damping slider: its ends and the preset default
Dampings == {0, Frac(8, 10), FP(1)}

InitCollision ==
    \E offset \in PairOffsets, v \in [0 .. 3 -> PairSpeeds], damping \in Dampings :
        /\ sim = [constructor(2) EXCEPT
                     !.bounds     = [width |-> FP(CanvasWidth), height |-> FP(CanvasHeight)],
                     !.damping    = damping,
                     !.allocated  = TRUE,
                     !.positions  = [k \in 0 .. 3 |->
                                        IF k = 0 THEN FP(50)
                                        ELSE IF k = 1 THEN FP(50)
                                        ELSE IF k = 2 THEN FP(50) + offset[1]
                                        ELSE FP(50) + offset[2]],
                     !.velocities = v]
        /\ lastOp = "new"
        /\ placing = NoPlacing
        /\ emitted = << >>
        /\ mid = NoMid
        /\ clock = [T |-> 0, pure |-> FALSE]
        /\ frames = 0
        /\ ui = NoUi

\* one call handleCollision(i, j, collisionDistSq, collisionDist), as
\* detectCollisionsOptimized makes it
Collide(i, j) ==
    /\ sim.allocated
    /\ frames < MaxFrames
    /\ sim' = handleCollision(sim, i, j, particleRadius * 2)
    /\ mid' = [positions |-> sim.positions, velocities |-> sim.velocities,
               activeParticles |-> sim.activeParticles, dt |-> 0]
    /\ lastOp' = "handleCollision"
    /\ emitted' = << >>
    /\ frames' = frames + 1
    /\ UNCHANGED << placing, clock, ui >>

NextCollision == \E pair \in {<< 0, 1 >>, << 1, 0 >>} : Collide(pair[1], pair[2])

SpecCollision == InitCollision /\ [][NextCollision]_vars

(***************************************************************************)
(* One particle falling head-on onto a static circle: the circle at        *)
(* (500, 500) with radius 50 in a domain of 1000 x 1000, the particle      *)
(* above it on the vertical through the centre                             *)
(***************************************************************************)
TargetCircle == Circle(FP(500), FP(500), FP(50), FALSE)

\* where the particle starts, y in pixels
DropHeights == {380, 400, 420, 440}

\* the speed it falls with, pixels per second
DropSpeeds == {60, 100, 140}

InitCircle ==
    \E y \in DropHeights, v \in DropSpeeds :
        /\ sim = [constructor(1) EXCEPT
                     !.bounds     = [width |-> FP(1000), height |-> FP(1000)],
                     !.shapes     = << TargetCircle >>,
                     !.allocated  = TRUE,
                     !.positions  = [k \in 0 .. 1 |-> IF k = 0 THEN FP(500) ELSE FP(y)],
                     !.velocities = [k \in 0 .. 1 |-> IF k = 0 THEN 0 ELSE FP(v)]]
        /\ lastOp = "new"
        /\ placing = NoPlacing
        /\ emitted = << >>
        /\ mid = NoMid
        /\ clock = [T |-> 0, pure |-> FALSE]
        /\ frames = 0
        /\ ui = NoUi

\* the frame times of animate: the two of the other specifications, and a
\* frame after a pause of a second and of 1.2 seconds (deltaTime is the time
\* since the previous frame, whatever it is)
FrameTimes == DtSamples \cup {FP(1), Frac(12, 10)}

NextCircle == \E deltaTime \in FrameTimes : Update(deltaTime, NoTape)

SpecCircle == InitCircle /\ [][NextCircle]_vars

(***************************************************************************)
(* The same drop onto a circle whose descriptor carries absorb: true.  No  *)
(* function of the simulation reads the flag.                              *)
(***************************************************************************)
AbsorbingCircle(x, y, r) ==
    [ type |-> "circle", x |-> x, y |-> y, width |-> 0, height |-> 0, radius |-> r,
      rotating |-> FALSE, rotationSpeed |-> 0, angle |-> 0,
      moveable |-> FALSE, vx |-> 0, vy |-> 0, mass |-> 0, absorb |-> TRUE ]

InitAbsorb ==
    \E y \in DropHeights, v \in DropSpeeds :
        /\ sim = [constructor(1) EXCEPT
                     !.bounds     = [width |-> FP(1000), height |-> FP(1000)],
                     !.shapes     = << AbsorbingCircle(FP(500), FP(500), FP(50)) >>,
                     !.allocated  = TRUE,
                     !.positions  = [k \in 0 .. 1 |-> IF k = 0 THEN FP(500) ELSE FP(y)],
                     !.velocities = [k \in 0 .. 1 |-> IF k = 0 THEN 0 ELSE FP(v)]]
        /\ lastOp = "new"
        /\ placing = NoPlacing
        /\ emitted = << >>
        /\ mid = NoMid
        /\ clock = [T |-> 0, pure |-> FALSE]
        /\ frames = 0
        /\ ui = NoUi

SpecAbsorb == InitAbsorb /\ [][NextCircle]_vars

(***************************************************************************)
(* The sensor field assigned on a live simulation.  The class has no       *)
(* setter: its callers write simulation.sensor = rect.  The one particle   *)
(* rests in the corner, away from every sensor, so that no update reaches  *)
(* the cell write of checkSensorHit.                                       *)
(***************************************************************************)
\* what a caller assigns: null, a 4 x 4 rectangle, a 6 x 2 rectangle
SensorRects ==
    { << >>, << Sensor(FP(100), FP(100), FP(4), FP(4)) >>,
      << Sensor(FP(100), FP(100), FP(6), FP(2)) >> }

InitSensorPage ==
    \E sensor \in SensorRects :
        /\ sim = init([constructor(1) EXCEPT
                          !.bounds = [width |-> FP(CanvasWidth), height |-> FP(CanvasHeight)],
                          !.sensor = sensor],
                      "static", NoTape)
        /\ lastOp = "init"
        /\ placing = NoPlacing
        /\ emitted = << >>
        /\ mid = NoMid
        /\ clock = [T |-> 0, pure |-> FALSE]
        /\ frames = 0
        /\ ui = NoUi

\* simulation.sensor = sensor
AssignSensor(sensor) ==
    /\ sim' = [sim EXCEPT !.sensor = sensor]
    /\ lastOp' = "sensor"
    /\ emitted' = << >>
    /\ mid' = NoMid
    /\ UNCHANGED << placing, clock, frames, ui >>

NextSensor ==
    \/ \E sensor \in SensorRects : AssignSensor(sensor)
    \/ Reset(1, "static", NoTape)
    \/ \E deltaTime \in DtSamples : Update(deltaTime, NoTape)

SpecSensor == InitSensorPage /\ [][NextSensor]_vars

(***************************************************************************)
(* The collision tests on their own: particle 0 at a point near, on or in  *)
(* the shapes of a list, particle 1 beside it                              *)
(***************************************************************************)
\* a rectangle and a circle apart from each other; two circles that overlap
TestShapeLists ==
    { << Rect(FP(100), FP(100), FP(40), FP(20)), Circle(FP(200), FP(100), FP(20), FALSE) >>,
      << Circle(FP(100), FP(100), FP(20), FALSE), Circle(FP(130), FP(100), FP(20), FALSE) >> }

\* where particle 0 is: inside the rectangle, above its top edge by 2/Q, by
\* 3/Q and by a pixel; on the centre of a circle, 20/Q and 26/Q beside it,
\* inside it, and between the two circles
TestPoints ==
    { << FP(120), FP(110) >>, << FP(120), FP(100) - 2 >>, << FP(120), FP(100) - 3 >>,
      << FP(120), FP(99) >>, << FP(200), FP(100) >>, << FP(200) + 20, FP(100) >>,
      << FP(200) + 26, FP(100) >>, << FP(215), FP(100) >>, << FP(115), FP(100) >>,
      << FP(110), FP(104) >> }

\* where particle 1 is, relative to particle 0: on it, 20/Q and 26/Q beside
\* it, and 3 pixels beside it
TestOffsets == { << 0, 0 >>, << 20, 0 >>, << 26, 0 >>, << FP(3), 0 >> }

\* the velocity of particle 0; particle 1 is at rest
TestVelocities == { << 0, 0 >>, << FP(40), -FP(30) >>, << -FP(40), FP(30) >> }

InitTests ==
    \E shapes \in TestShapeLists, p \in TestPoints, offset \in TestOffsets, v \in TestVelocities :
        /\ sim = [constructor(2) EXCEPT
                     !.bounds     = [width |-> FP(CanvasWidth), height |-> FP(CanvasHeight)],
                     !.shapes     = shapes,
                     !.allocated  = TRUE,
                     !.positions  = [k \in 0 .. 3 |->
                                        IF k = 0 THEN p[1]
                                        ELSE IF k = 1 THEN p[2]
                                        ELSE IF k = 2 THEN p[1] + offset[1]
                                        ELSE p[2] + offset[2]],
                     !.velocities = [k \in 0 .. 3 |->
                                        IF k = 0 THEN v[1] ELSE IF k = 1 THEN v[2] ELSE 0]]
        /\ lastOp = "new"
        /\ placing = NoPlacing
        /\ emitted = << >>
        /\ mid = NoMid
        /\ clock = [T |-> 0, pure |-> FALSE]
        /\ frames = 0
        /\ ui = NoUi

\* the name of the test against shape k, for lastOp
testName == << "shapeTest 1", "shapeTest 2" >>

\* what the tests leave in the history variables
Tested(op) ==
    /\ mid' = [positions |-> sim.positions, velocities |-> sim.velocities,
               activeParticles |-> sim.activeParticles, dt |-> 0]
    /\ lastOp' = op
    /\ emitted' = << >>
    /\ frames' = frames + 1
    /\ UNCHANGED << placing, clock, ui >>

\* one pass of the loop of handleShapeCollisions: particle 0 against shape k
TestShape(k) ==
    /\ frames < MaxFrames
    /\ k <= Len(sim.shapes)
    /\ sim' = shapeTest(sim, 0, k, sim.positions[0], sim.positions[1])
    /\ Tested(testName[k])

\* handleShapeCollisions(0)
TestShapes ==
    /\ frames < MaxFrames
    /\ sim' = handleShapeCollisions(sim, 0)
    /\ Tested("handleShapeCollisions")

NextTests ==
    \/ \E k \in DOMAIN testName : TestShape(k)
    \/ TestShapes
    \/ \E pair \in {<< 0, 1 >>, << 1, 0 >>} : Collide(pair[1], pair[2])

SpecTests == InitTests /\ [][NextTests]_vars

(***************************************************************************)
(* A simulation whose shape list changes while it runs: addShape and an    *)
(* assignment of the shape list between updates, with and without an init  *)
(* after them.                                                             *)
(***************************************************************************)
\* the longest shape list explored
MaxShapes == 3

\* the shape lists the simulation is built with: none, a drifting circle, and
\* a circle that drifts into the left wall with a second one overlapping it
CircleLists ==
    { << >>,
      << MovingCircle(FP(100), FP(100), FP(20), FP(40), 0) >>,
      << MovingCircle(FP(20), FP(100), FP(20), FP(-40), 0),
         MovingCircle(FP(50), FP(100), FP(20), 0, 0) >> }

\* the shapes given to addShape and assigned as a list: a moveable circle as
\* a caller writes it, { type, x, y, radius, moveable }, without vx, vy, mass
AddedCircle == Circle(FP(300), FP(200), FP(10), TRUE)

InitCircles ==
    \E shapes \in CircleLists :
        /\ sim = init([constructor(1) EXCEPT !.bounds = canvasBounds,
                                             !.shapes = shapes],
                      "static", NoTape)
        /\ lastOp = "init"
        /\ placing = NoPlacing
        /\ emitted = << >>
        /\ mid = NoMid
        /\ clock = [T |-> 0, pure |-> FALSE]
        /\ frames = 0
        /\ ui = NoUi

\* the step of an operation on the shape list
Listed(op) ==
    /\ lastOp' = op
    /\ emitted' = << >>
    /\ mid' = NoMid
    /\ UNCHANGED << placing, clock, frames, ui >>

\* simulation.addShape(shape)
AddShape(shape) ==
    /\ Len(sim.shapes) < MaxShapes
    /\ Len(sim.initialShapeStates) < MaxShapes
    /\ sim' = addShape(sim, shape)
    /\ Listed("addShape")

\* simulation.shapes = shapes
AssignShapes(shapes) ==
    /\ sim' = [sim EXCEPT !.shapes = shapes]
    /\ Listed("shapes")

\* simulation.init(initType) on the running simulation
InitAgain(initType) ==
    /\ sim' = init(sim, initType, NoTape)
    /\ Listed("init")

NextCircles ==
    \/ AddShape(AddedCircle)
    \/ AssignShapes(<< AddedCircle >>)
    \/ InitAgain("static")
    \/ \E deltaTime \in DtSamples : Update(deltaTime, NoTape)

SpecCircles == InitCircles /\ [][NextCircles]_vars

(***************************************************************************)
(* Properties                                                              *)
(***************************************************************************)
\* the particles update moves
live == 0 .. sim.particleCount - 1

\* coordinate c (0 for x, 1 for y) of particle i is stored and lies in [lo, hi]
within(i, c, lo, hi) ==
    /\ i * 2 + c \in DOMAIN sim.positions
    /\ lo <= sim.positions[i * 2 + c]
    /\ sim.positions[i * 2 + c] <= hi

\* C1: in reflect mode, after every update, every particle i < particleCount
\* has x in [particleRadius, width - particleRadius] and y in
\* [particleRadius, height - particleRadius].
C1ReflectBounds ==
    (lastOp = "update" /\ ~sim.wrapEdges) =>
        \A i \in live :
            /\ within(i, 0, particleRadius, sim.bounds.width - particleRadius)
            /\ within(i, 1, particleRadius, sim.bounds.height - particleRadius)

\* C2: in wrap mode, after every update, every particle i < particleCount has
\* x in [0, width) and y in [0, height).
C2WrapBounds ==
    (lastOp = "update" /\ sim.wrapEdges) =>
        \A i \in live :
            /\ within(i, 0, 0, sim.bounds.width - 1)
            /\ within(i, 1, 0, sim.bounds.height - 1)

\* C3: between operations, once the arrays exist,
\* positions.length = velocities.length = 2 * particleCount.
C3ArrayLengths ==
    sim.allocated =>
        /\ Length(sim.positions) = Length(sim.velocities)
        /\ Length(sim.positions) = 2 * sim.particleCount

\* an init in one of the modes that run a placement loop has just returned
placedBy(initType) ==
    /\ lastOp \in {"init", "reset"}
    /\ placing.ran
    /\ placing.initType = initType

\* C4: init in modes center, left and random makes at most
\* 100 * (requested particleCount) placement attempts, and afterwards
\* particleCount is the number of particles placed, at most the requested count.
C4PlacementTerminates ==
    \A initType \in {"center", "left", "random"} :
        placedBy(initType) =>
            /\ placing.attempts <= 100 * placing.requested
            /\ sim.particleCount = placing.placed
            /\ placing.placed <= placing.requested

\* C4 witness: a placement loop that left at the attempt cap with fewer
\* particles placed than requested, some of them placed
C4CapHit ==
    /\ placedBy("random")
    /\ placing.attempts = 100 * placing.requested
    /\ 0 < placing.placed
    /\ placing.placed < placing.requested
    /\ sim.particleCount = placing.placed

\* C5: after init(mode) returns, for every mode, no particle with index
\* < particleCount is at a position occupied by a shape.
C5NoParticleInShape ==
    lastOp \in {"init", "reset"} =>
        \A i \in live :
            ~isPositionOccupied(sim, sim.positions[i * 2], sim.positions[i * 2 + 1])

\* C6: init('static') leaves every particle in the domain, at a position no
\* shape occupies, with zero velocity.
C6StaticPlacement ==
    placedBy("static") =>
        \A i \in live :
            /\ within(i, 0, 0, sim.bounds.width)
            /\ within(i, 1, 0, sim.bounds.height)
            /\ ~isPositionOccupied(sim, sim.positions[i * 2], sim.positions[i * 2 + 1])
            /\ sim.velocities[i * 2] = 0
            /\ sim.velocities[i * 2 + 1] = 0

\* an emitter with a capacity is attached
pooled == sim.emitter # << >> /\ sim.emitter[1].maxParticles # 0

\* C7: with an emitter of capacity maxParticles attached, in every reachable
\* state activeParticles <= maxParticles, and every slot index emitParticle
\* was given is < maxParticles.
C7PoolBound ==
    pooled =>
        /\ sim.activeParticles <= sim.emitter[1].maxParticles
        /\ \A k \in 1 .. Len(emitted) : emitted[k] < sim.emitter[1].maxParticles

\* C7 witness: an update that emitted into a pool that is full
C7PoolFilled ==
    /\ pooled
    /\ lastOp = "update"
    /\ Len(emitted) > sim.emitter[1].maxParticles
    /\ sim.activeParticles = sim.emitter[1].maxParticles

\* C8: after setEmitter with capacity M and rate R and updates whose scaled dt
\* values sum to T, the number of activated slots is min(M, floor(T * R)).
C8EmittedCount ==
    (pooled /\ clock.pure /\ lastOp = "update") =>
        sim.activeParticles =
            Min(sim.emitter[1].maxParticles,
                (clock.T * sim.emitter[1].particlesPerSecond) \div (Q * Q))

\* the pool of s is full
poolFull(s) ==
    /\ s.emitter # << >>
    /\ s.emitter[1].maxParticles # 0
    /\ s.activeParticles = s.emitter[1].maxParticles

C10SetEmitterResets ==
    (lastOp = "setEmitter" /\ pooled) =>
        /\ sim.particleCount = sim.emitter[1].maxParticles
        /\ Length(sim.positions) = 2 * sim.emitter[1].maxParticles
        /\ Length(sim.velocities) = 2 * sim.emitter[1].maxParticles
        /\ \A k \in DOMAIN sim.positions : sim.positions[k] = parked
        /\ \A k \in DOMAIN sim.velocities : sim.velocities[k] = 0
        /\ sim.activeParticles = 0
        /\ sim.emitterAccumulator = 0

\* C10 witness: setEmitter on a simulation that has already run, with another
\* pool, for some time
C10ReattachedAfterRun ==
    /\ lastOp = "setEmitter"
    /\ pooled
    /\ sim.time > 0
    /\ frames = MaxFrames

\* slot i of the pool lies outside [0, width] x [0, height] and is at rest
parkedSlot(i) ==
    /\ i * 2 + 1 \in DOMAIN sim.positions
    /\ \/ sim.positions[i * 2] < 0
       \/ sim.positions[i * 2] > sim.bounds.width
       \/ sim.positions[i * 2 + 1] < 0
       \/ sim.positions[i * 2 + 1] > sim.bounds.height
    /\ sim.velocities[i * 2] = 0
    /\ sim.velocities[i * 2 + 1] = 0

\* C11: after setEmitter, through any number of updates, every pool slot no
\* emission has activated yet (the slots from activeParticles on) stays
\* outside the domain with zero velocity, in reflect and in wrap mode.
C11ParkedUntilEmitted ==
    (pooled /\ clock.pure /\ lastOp = "update") =>
        \A i \in sim.activeParticles .. sim.emitter[1].maxParticles - 1 : parkedSlot(i)

\* C13: after every shape-list operation of the program,
\* shapes.length = initialShapeStates.length and initialShapeStates[i] is the
\* snapshot of shapes[i] (its type and its dimensions, which never change).
C13SnapshotsAligned ==
    /\ Len(sim.shapes) = Len(sim.initialShapeStates)
    /\ \A k \in 1 .. Len(sim.shapes) :
           /\ sim.initialShapeStates[k].type = sim.shapes[k].type
           /\ sim.initialShapeStates[k].width = sim.shapes[k].width
           /\ sim.initialShapeStates[k].height = sim.shapes[k].height
           /\ sim.initialShapeStates[k].radius = sim.shapes[k].radius

\* the shapes of the simulation were registered with addShape, by the load of
\* the current preset
registered ==
    /\ sim.initialShapeStates # << >>
    /\ ui.currentPreset # << >>
    /\ Len(sim.shapes) = Len(ui.currentPreset[1].shapes)

\* shape k of s has the x and y, the vx and vy if it is a moveable circle, and
\* the angle if it rotates, of the shape given to addShape
restored(s, k, given) ==
    /\ s.shapes[k].x = given.x
    /\ s.shapes[k].y = given.y
    /\ (given.type = "circle" /\ given.moveable) =>
           s.shapes[k].vx = given.vx /\ s.shapes[k].vy = given.vy
    /\ given.rotating => s.shapes[k].angle = given.angle

\* C14: in every state, after any number of updates, resetShapes() gives
\* every shape registered with addShape the x, y, vx, vy and angle it had
\* when addShape was called, the reset button leaves them so, and a second
\* resetShapes() changes nothing.
C14ResetRestores ==
    /\ registered =>
           \A k \in 1 .. Len(sim.shapes) :
               /\ restored(resetShapes(sim), k, ui.currentPreset[1].shapes[k])
               /\ lastOp = "reset" => restored(sim, k, ui.currentPreset[1].shapes[k])
    /\ resetShapes(resetShapes(sim)) = resetShapes(sim)

\* C14 witness: the reset button on a loaded preset whose circle and bar have
\* moved, the simulation having stepped since the load
C14ResetAfterRun ==
    /\ registered
    /\ lastOp = "reset"
    /\ sim.time > 0
    /\ \E k \in 1 .. Len(sim.shapes) : sim.shapes[k].moveable /\ sim.shapes[k].vx # 0
    /\ \E k \in 1 .. Len(sim.shapes) : sim.shapes[k].rotating

\* r differs from s in nothing but the sensor grid, the force-field grid and
\* the vx, vy and mass of the moveable circles
initFrame(s, r) ==
    /\ r.positions = s.positions
    /\ r.velocities = s.velocities
    /\ r.particleCount = s.particleCount
    /\ r.activeParticles = s.activeParticles
    /\ r = [s EXCEPT !.sensorHits = r.sensorHits,
                     !.forceField = r.forceField,
                     !.forceFieldWidth = r.forceFieldWidth,
                     !.forceFieldHeight = r.forceFieldHeight,
                     !.shapes = r.shapes]
    /\ Len(r.shapes) = Len(s.shapes)
    /\ \A k \in 1 .. Len(s.shapes) :
           IF s.shapes[k].type = "circle" /\ s.shapes[k].moveable
           THEN r.shapes[k] = [s.shapes[k] EXCEPT !.vx = r.shapes[k].vx,
                                                  !.vy = r.shapes[k].vy,
                                                  !.mass = r.shapes[k].mass]
           ELSE r.shapes[k] = s.shapes[k]

\* the grids of r are the freshly initialised ones: a zeroed sensor grid if
\* there is a sensor, a zeroed force field if it is shown
gridsFresh(r) ==
    /\ r.sensor # << >> =>
           /\ r.sensorHits # << >>
           /\ \A c \in DOMAIN r.sensorHits[1] : r.sensorHits[1][c] = 0
    /\ r.showForceField =>
           /\ r.forceField # << >>
           /\ \A c \in DOMAIN r.forceField[1] : r.forceField[1][c] = 0

\* C12: with an emitter of finite maxParticles attached and the particle
\* arrays allocated, init(mode) leaves positions, velocities, particleCount
\* and activeParticles as they are for every mode, and changes only the
\* sensor grid, the moveable circles' defaults and the force-field grid; the
\* reset button, which ends in init, leaves the pool as it was.
C12InitKeepsPool ==
    [][ emitterManaged(sim) =>
            /\ \A initType \in InitTypes \cup {"none"} :
                   /\ initFrame(sim, init(sim, initType, NoTape))
                   /\ gridsFresh(init(sim, initType, NoTape))
            /\ lastOp' = "reset" =>
                   /\ sim'.positions = sim.positions
                   /\ sim'.velocities = sim.velocities
                   /\ sim'.activeParticles = sim.activeParticles
                   /\ gridsFresh(sim') ]_vars

\* C12 witness: the reset button on a running emitter preset: particles are
\* out of the pool and moving, and the grids are shown
C12ResetOfRunningPool ==
    /\ lastOp = "reset"
    /\ emitterManaged(sim)
    /\ sim.activeParticles > 0
    /\ \E k \in DOMAIN sim.velocities : sim.velocities[k] # 0
    /\ sim.sensorHits # << >>
    /\ sim.showForceField

\* C15: the force-field grid is allocated exactly while the visualisation is
\* enabled: after setShowForceField(false) forceField is null.
C15FieldAbsentWhenDisabled ==
    (sim.forceField # << >>) <=> sim.showForceField

\* the particle steps of the update just taken whose hit lands on sensor cell
\* c: the segment of particle i runs from its position after the emitter
\* phase to that position plus velocity * dt
hitsOn(c) ==
    Cardinality(
        { i \in 0 .. sim'.particleCount - 1 :
            /\ i * 2 + 1 \in DOMAIN mid'.positions
            /\ sensorIndex(sim.sensor[1], Length(sim.sensorHits[1]),
                           mid'.positions[i * 2], mid'.positions[i * 2 + 1],
                           mid'.positions[i * 2] + Mul(mid'.velocities[i * 2], mid'.dt),
                           mid'.positions[i * 2 + 1]
                               + Mul(mid'.velocities[i * 2 + 1], mid'.dt)) = c })

\* every cell of the sensor grid of s is in [0, 20]
cellsInRange(s) ==
    s.sensorHits # << >> =>
        \A c \in DOMAIN s.sensorHits[1] :
            0 <= s.sensorHits[1][c] /\ s.sensorHits[1][c] <= FP(20)

\* C16: every sensor cell is in [0, 20] in every reachable state, and an
\* update leaves in every cell its old value times 0.99, plus 1 for every hit
\* of the step on that cell, capped at 20; a cell no particle hits is
\* multiplied by 0.99 all the same.
C16SensorCellsBounded ==
    /\ cellsInRange(sim)
    /\ [][ /\ cellsInRange(sim')
           /\ (lastOp' = "update" /\ sim.sensorHits # << >>) =>
                  \A c \in DOMAIN sim.sensorHits[1] :
                      sim'.sensorHits[1][c] =
                          Min(decay(sim.sensorHits[1][c]) + hitsOn(c) * FP(1), FP(20)) ]_vars

\* C16 witness: an update that left a cell at the cap, 20, more than one
\* particle having hit it
C16CellAtCap ==
    /\ lastOp = "update"
    /\ sim.sensorHits # << >>
    /\ sim.particleCount > 1
    /\ \E c \in DOMAIN sim.sensorHits[1] : sim.sensorHits[1][c] = FP(20)

\* the end of the segment of particle i in the update just taken, along
\* coordinate k (0 for x, 1 for y)
segmentEnd(i, k) == mid'.positions[i * 2 + k] + Mul(mid'.velocities[i * 2 + k], mid'.dt)

\* the particles the loop of the update just taken stepped
stepped == { i \in 0 .. sim'.particleCount - 1 : i * 2 + 1 \in DOMAIN mid'.positions }

\* the segment of particle i in the update just taken touches the sensor
\* rectangle
crosses(i) ==
    lineIntersectsRect(mid'.positions[i * 2], mid'.positions[i * 2 + 1],
                       segmentEnd(i, 0), segmentEnd(i, 1),
                       sim.sensor[1].x, sim.sensor[1].y,
                       sim.sensor[1].width, sim.sensor[1].height)

\* the sensor cell that contains the midpoint of the segment of particle i,
\* -1 if none does
midCell(i) ==
    hitCell(sim.sensor[1], Length(sim.sensorHits[1]),
            (segmentEnd(i, 0) + mid'.positions[i * 2]) \div 2,
            (segmentEnd(i, 1) + mid'.positions[i * 2 + 1]) \div 2)

\* C17: in an update, every particle whose segment crosses the sensor
\* rectangle has its midpoint in a cell of the grid, and each cell is
\* incremented once (up to the cap) for every crossing segment whose midpoint
\* it contains and by no other segment.
C17CrossingHitsMidpointCell ==
    [][ (lastOp' = "update" /\ sim.sensorHits # << >>) =>
            /\ \A i \in stepped : crosses(i) => midCell(i) \in DOMAIN sim.sensorHits[1]
            /\ \A c \in DOMAIN sim.sensorHits[1] :
                   sim'.sensorHits[1][c] =
                       Min(decay(sim.sensorHits[1][c])
                               + Cardinality({i \in stepped : crosses(i) /\ midCell(i) = c})
                                     * FP(1),
                           FP(20)) ]_vars

\* the sum of the squared speeds of the pair with velocities v
pairEnergy(v) == v[0] * v[0] + v[1] * v[1] + v[2] * v[2] + v[3] * v[3]

\* the pair handleCollision was just called on overlapped:
\* 0.01 < distSq < (2 * particleRadius)^2
overlapped ==
    /\ lastOp = "handleCollision"
    /\ SqSumBelow(mid.positions[2] - mid.positions[0],
                  mid.positions[3] - mid.positions[1], particleRadius * 2)
    /\ (mid.positions[2] - mid.positions[0]) * (mid.positions[2] - mid.positions[0])
           + (mid.positions[3] - mid.positions[1]) * (mid.positions[3] - mid.positions[1])
       > SqFloor

\* the distance of the pair before the call
contactDist ==
    Sqrt((mid.positions[2] - mid.positions[0]) * (mid.positions[2] - mid.positions[0])
         + (mid.positions[3] - mid.positions[1]) * (mid.positions[3] - mid.positions[1]))

\* the velocity of the second particle relative to the first along the
\* contact normal of the call, for the velocities v
normalSpeed(v) ==
    Mul(v[2] - v[0], Div(mid.positions[2] - mid.positions[0], contactDist))
    + Mul(v[3] - v[1], Div(mid.positions[3] - mid.positions[1], contactDist))

\* the pair overlapped and was approaching
approaching == overlapped /\ normalSpeed(mid.velocities) < 0

\* the contact normal lies along an axis, where the fixed-point normal is exact
axisAligned ==
    mid.positions[2] = mid.positions[0] \/ mid.positions[3] = mid.positions[1]

\* what the rounding of the normal and of the products to 1/Q can change in
\* the sum of squared speeds: the normal's length is within 1/32 of 1, and
\* each velocity component within 2/Q of its real value
energySlack ==
    (normalSpeed(mid.velocities) * normalSpeed(mid.velocities)) \div 16
    + 4 * (Abs(sim.velocities[0]) + Abs(sim.velocities[1])
           + Abs(sim.velocities[2]) + Abs(sim.velocities[3]) + 4)

\* C18: with damping 1.0, handleCollision on an approaching overlapping pair
\* leaves the sum of the two squared speeds unchanged: exactly where the
\* contact normal is along an axis, and within the rounding of the
\* fixed-point normal elsewhere.
C18ElasticKeepsEnergy ==
    (approaching /\ sim.damping = FP(1)) =>
        /\ Abs(pairEnergy(sim.velocities) - pairEnergy(mid.velocities)) <= energySlack
        /\ axisAligned => pairEnergy(sim.velocities) = pairEnergy(mid.velocities)

\* C18 witness: an elastic collision with an oblique normal that changed the
\* velocities of both particles
C18ObliqueElastic ==
    /\ approaching
    /\ sim.damping = FP(1)
    /\ ~axisAligned
    /\ sim.velocities[0] # mid.velocities[0]
    /\ sim.velocities[3] # mid.velocities[3]
    /\ pairEnergy(mid.velocities) > 0

\* C19: with damping 0.0, handleCollision on an approaching overlapping pair
\* leaves the relative velocity along the contact normal strictly smaller in
\* magnitude than it was.
C19InelasticSlows ==
    (approaching /\ sim.damping = 0) =>
        Abs(normalSpeed(sim.velocities)) < Abs(normalSpeed(mid.velocities))

\* the position the update just taken moved the particle to, before any
\* collision response, along coordinate k
movedTo(k) == mid.positions[k] + Mul(mid.velocities[k], mid.dt)

\* in the update just taken the particle was moving towards the centre of the
\* circle and came within particleRadius + radius of it
cameWithin ==
    /\ lastOp = "update"
    /\ mid.positions[1] < TargetCircle.y
    /\ mid.velocities[1] > 0
    /\ SqSumBelow(movedTo(0) - TargetCircle.x, movedTo(1) - TargetCircle.y,
                  particleRadius + TargetCircle.radius)

\* C20: in the step in which the head-on particle comes within
\* particleRadius + radius of the centre of the static circle, the sign of
\* its velocity along the normal (its y velocity) is reversed, and after
\* every step its distance from the centre is at least the radius.
C20BouncesOffCircle ==
    /\ cameWithin => sim.velocities[1] < 0
    /\ lastOp = "update" =>
           ~SqSumBelow(sim.positions[0] - TargetCircle.x,
                       sim.positions[1] - TargetCircle.y, TargetCircle.radius)

\* in the update just taken the particle was moved to a point inside the
\* radius of the absorbing circle k
penetrated(k) ==
    /\ lastOp = "update"
    /\ sim.shapes[k].absorb
    /\ SqSumBelow(movedTo(0) - sim.shapes[k].x, movedTo(1) - sim.shapes[k].y,
                  sim.shapes[k].radius)
    /\ (movedTo(0) - sim.shapes[k].x) * (movedTo(0) - sim.shapes[k].x)
           + (movedTo(1) - sim.shapes[k].y) * (movedTo(1) - sim.shapes[k].y) > SqFloor

\* the particle is where the push-out of a bounce off circle k puts it, on the
\* vertical through the centre, with its y velocity reflected and damped
bounced(k) ==
    /\ sim.positions[0] = sim.shapes[k].x
    /\ Abs(sim.positions[1] - sim.shapes[k].y) = particleRadius + sim.shapes[k].radius
    /\ sim.velocities[1] = Mul(-mid.velocities[1], sim.damping)

\* C21: a particle that penetrates an absorbing circle is outside the radius
\* of every absorbing circle after the update, and it has not received the
\* reflect-and-damp bounce.
C21AbsorbedNotBounced ==
    \A k \in 1 .. Len(sim.shapes) :
        penetrated(k) =>
            /\ \A j \in 1 .. Len(sim.shapes) :
                   sim.shapes[j].absorb =>
                       ~SqSumBelow(sim.positions[0] - sim.shapes[j].x,
                                   sim.positions[1] - sim.shapes[j].y,
                                   sim.shapes[j].radius)
            /\ ~bounced(k)

\* what update dereferences exists: the particle arrays, the force-field grid
\* of the size its loops assume if the field is shown, the sensor grid if
\* there is a sensor
updateDefined(s) ==
    /\ s.allocated
    /\ s.showForceField =>
           /\ s.forceField # << >>
           /\ Length(s.forceField[1]) = s.forceFieldWidth * s.forceFieldHeight
    /\ s.sensor # << >> => s.sensorHits # << >>

consumed ==
    drain(FlAdd(sim.emitterAccumulator, mid'.dt), emitInterval(sim.emitter[1]), 0)[1]

\* C23: with an emitter of positive rate attached, in every state reached
\* through setEmitter, init, reset(count) and update, an update emits exactly
\* one particle for each interval it consumes from the accumulator, each
\* into the next unused slot or into slot 0, and leaves the accumulator in
\* [0, 1/particlesPerSecond).
C23OneParticlePerInterval ==
    [][ (/\ lastOp' = "update"
         /\ sim.emitter # << >>
         /\ sim.emitter[1].particlesPerSecond > 0) =>
            /\ Len(emitted') = consumed
            /\ \A k \in 1 .. Len(emitted') :
                   emitted'[k] = 0 \/ emitted'[k] = sim.activeParticles + k - 1
            /\ 0 <= sim'.emitterAccumulator
            /\ sim'.emitterAccumulator < emitInterval(sim.emitter[1]) ]_vars

\* C24: whenever there is a sensor, however and whenever it was assigned,
\* sensorHits is a grid of ceil(width / sensorResolution) *
\* ceil(height / sensorResolution) cells for that sensor.
C24GridFitsSensor ==
    sim.sensor # << >> =>
        /\ sim.sensorHits # << >>
        /\ Length(sim.sensorHits[1])
               = sensorWidth(sim.sensor[1])
                     * CeilDiv(sim.sensor[1].height, sensorResolution)

\* d2, a squared distance in 1/Q^2 units, is at or below 0.01
sqAtFloor(d2) == 100 * d2 <= Q * Q

\* the two particles are within the floor of each other
pairAtFloor ==
    /\ Abs(sim.positions[2] - sim.positions[0]) < Q
    /\ Abs(sim.positions[3] - sim.positions[1]) < Q
    /\ sqAtFloor((sim.positions[2] - sim.positions[0]) * (sim.positions[2] - sim.positions[0])
                 + (sim.positions[3] - sim.positions[1]) * (sim.positions[3] - sim.positions[1]))

\* the distance along one axis from the coordinate p to the interval [lo, hi]
axisGap(p, lo, hi) == IF p < lo THEN lo - p ELSE IF p > hi THEN p - hi ELSE 0

\* particle 0 is within the floor of shape k: of the centre of a circle (on
\* the squared distance), of the nearest point of a rectangle (on the
\* distance)
shapeAtFloor(k) ==
    IF sim.shapes[k].type = "circle"
    THEN /\ Abs(sim.positions[0] - sim.shapes[k].x) < Q
         /\ Abs(sim.positions[1] - sim.shapes[k].y) < Q
         /\ sqAtFloor((sim.positions[0] - sim.shapes[k].x) * (sim.positions[0] - sim.shapes[k].x)
                      + (sim.positions[1] - sim.shapes[k].y) * (sim.positions[1] - sim.shapes[k].y))
    ELSE /\ axisGap(sim.positions[0], sim.shapes[k].x,
                    sim.shapes[k].x + sim.shapes[k].width) < Q
         /\ axisGap(sim.positions[1], sim.shapes[k].y,
                    sim.shapes[k].y + sim.shapes[k].height) < Q
         /\ 100 * Sqrt(axisGap(sim.positions[0], sim.shapes[k].x,
                               sim.shapes[k].x + sim.shapes[k].width)
                           * axisGap(sim.positions[0], sim.shapes[k].x,
                                     sim.shapes[k].x + sim.shapes[k].width)
                       + axisGap(sim.positions[1], sim.shapes[k].y,
                                 sim.shapes[k].y + sim.shapes[k].height)
                           * axisGap(sim.positions[1], sim.shapes[k].y,
                                     sim.shapes[k].y + sim.shapes[k].height)) <= Q

\* C25: a collision test whose separation is at or below the 0.01 floor, on
\* the squared distance for a pair of particles and for a circle, on the
\* distance for a rectangle, changes nothing: the positions and velocities
\* of both bodies are after the test what they were before it.
C25FloorSkipsTest ==
    [][ /\ (lastOp' = "handleCollision" /\ pairAtFloor) => sim' = sim
        /\ \A k \in DOMAIN testName :
               (lastOp' = testName[k] /\ shapeAtFloor(k)) => sim' = sim ]_vars

\* C25 witness: the test of a moving particle against the circle it is
\* 20/Q beside the centre of
C25BesideCentre ==
    /\ lastOp = testName[2]
    /\ sim.shapes[2].type = "circle"
    /\ sim.positions[0] = sim.shapes[2].x + 20
    /\ sim.positions[1] = sim.shapes[2].y
    /\ sim.velocities[0] # 0
    /\ mid.positions = sim.positions

\* the force field of the particles as they were after the emitter phase of
\* the update just taken, before any of them moved
fieldBeforeMove ==
    updateForceField([sim EXCEPT !.positions  = mid'.positions,
                                 !.velocities = mid'.velocities]).forceField

\* C26: the phases of an update run in the order shape update, emission,
\* force-field rebuild, sensor decay, particle loop, collisions: the force
\* field after the update is the field of the positions before the movement,
\* those of the particles emitted in the same update included, and a cell
\* hit in the update holds the decayed old value plus the undecayed hits.
C26PhaseOrder ==
    [][ lastOp' = "update" =>
            /\ sim.showForceField => sim'.forceField = fieldBeforeMove
            /\ sim.sensorHits # << >> =>
                   \A c \in DOMAIN sim.sensorHits[1] :
                       hitsOn(c) > 0 =>
                           sim'.sensorHits[1][c] =
                               Min(decay(sim.sensorHits[1][c]) + hitsOn(c) * FP(1),
                                   FP(20)) ]_vars

\* C26 witness: an update that emitted a particle, whose field shows it at
\* the emitter and not where it moved to, and whose sensor holds the hit
\* of that particle undecayed
C26EmittedSeenBeforeMove ==
    /\ lastOp = "update"
    /\ emitted # << >>
    /\ sim.showForceField
    /\ \E c \in DOMAIN sim.forceField[1] : sim.forceField[1][c] # 0
    /\ sim.forceField # updateForceField(sim).forceField
    /\ sim.sensorHits # << >>
    /\ \E c \in DOMAIN sim.sensorHits[1] : sim.sensorHits[1][c] = FP(1)

\* the simulation on which the update just taken built its spatial hash: the
\* particles after the particle loop, before the collision pass
atHashBuild ==
    particleLoop(gridPhase([sim' EXCEPT !.positions  = mid'.positions,
                                        !.velocities = mid'.velocities,
                                        !.sensorHits = sim.sensorHits,
                                        !.forceField = sim.forceField]),
                 0, mid'.dt)

\* the places in the sequence of handleCollision calls at which the
\* unordered pair i, j is passed
pairTests(tests, i, j) ==
    {k \in DOMAIN tests : {tests[k][1], tests[k][2]} = {i, j}}

\* the hash places i and j in the same cell or in cells that touch
sameOrNeighbour(s, i, j) ==
    \/ cellOf(s, i) = cellOf(s, j)
    \/ /\ stored(s, i) /\ stored(s, j)
       /\ Abs(cellOf(s, i)[1] - cellOf(s, j)[1]) <= 1
       /\ Abs(cellOf(s, i)[2] - cellOf(s, j)[2]) <= 1

\* the centres of i and j are closer than 2 * particleRadius
closer(s, i, j) ==
    /\ stored(s, i) /\ stored(s, j)
    /\ SqSumBelow(s.positions[j * 2] - s.positions[i * 2],
                  s.positions[j * 2 + 1] - s.positions[i * 2 + 1],
                  particleRadius * 2)

\* no particle is passed with itself, no pair twice, and every pair of the
\* same or of touching cells, so every pair closer than 2 * particleRadius,
\* is passed once
eachPairOnce(s, tests) ==
    \A i, j \in 0 .. s.particleCount - 1 :
        /\ i = j => pairTests(tests, i, j) = {}
        /\ i < j => Cardinality(pairTests(tests, i, j)) <= 1
        /\ (i < j /\ (sameOrNeighbour(s, i, j) \/ closer(s, i, j))) =>
               pairTests(tests, i, j) # {}

\* C27: in the collision pass of every update each unordered pair of distinct
\* particles that the hash places in the same cell or in touching cells is
\* passed to handleCollision exactly once, never twice and never a particle
\* with itself, so every pair closer than 2 * particleRadius when the hash
\* was built is tested.
C27EachPairOnce ==
    [][lastOp' = "update" =>
           \A s \in {atHashBuild} :
               \A tests \in {collisionTests(buildSpatialHash(s))} :
                   eachPairOnce(s, tests)]_vars

\* the moveable circles of a shape list
moveable(shapes) ==
    {k \in 1 .. Len(shapes) : shapes[k].type = "circle" /\ shapes[k].moveable}

\* C28: at the start of every update every moveable circle of the shape list
\* has a mass above 0, whatever addShape, assignments of the shape list,
\* init and update came before.
C28CirclesHaveMass ==
    [][lastOp' = "update" =>
           \A k \in moveable(sim.shapes) : sim.shapes[k].mass > 0]_vars

\* C30: after updateShapes every moveable circle lies inside the domain with
\* its whole radius.
C30CirclesInsideDomain ==
    [][lastOp' = "update" =>
           \A k \in moveable(sim'.shapes) :
               /\ sim'.shapes[k].radius <= sim'.shapes[k].x
               /\ sim'.shapes[k].x <= sim'.bounds.width - sim'.shapes[k].radius
               /\ sim'.shapes[k].radius <= sim'.shapes[k].y
               /\ sim'.shapes[k].y <= sim'.bounds.height - sim'.shapes[k].radius]_vars

\* the loop of handleShapeCollisions as the claim reads it: the test against
\* the k-th shape is given the position the earlier responses left
RECURSIVE correctedLoop(_, _, _)
correctedLoop(s, idx, k) ==
    IF k > Len(s.shapes) THEN s
    ELSE correctedLoop(shapeTest(s, idx, k, s.positions[idx], s.positions[idx + 1]),
                       idx, k + 1)

\* the shapes whose test moves particle 0 from where it is now
responding ==
    {k \in 1 .. Len(sim.shapes) :
        shapeTest(sim, 0, k, sim.positions[0], sim.positions[1]) # sim}

\* particle 0 is, a quarter of a pixel allowed, not inside shape k: not
\* within particleRadius + radius of the centre of a circle, not inside a
\* rectangle
clearOf(s, k) ==
    IF s.shapes[k].type = "circle"
    THEN ~SqSumBelow(s.positions[0] - s.shapes[k].x, s.positions[1] - s.shapes[k].y,
                     particleRadius + s.shapes[k].radius - Q \div 4)
    ELSE ~ /\ s.positions[0] > s.shapes[k].x
           /\ s.positions[0] < s.shapes[k].x + s.shapes[k].width
           /\ s.positions[1] > s.shapes[k].y
           /\ s.positions[1] < s.shapes[k].y + s.shapes[k].height

\* C29: handleShapeCollisions tests the shapes in the order of the list, each
\* test with the position the responses to the earlier shapes left, and after
\* the call the particle does not penetrate the shape that responded last.
C29TestsUseCorrectedPosition ==
    [][lastOp' = "handleShapeCollisions" =>
           /\ sim' = correctedLoop(sim, 0, 1)
           /\ \A k \in responding :
                  (\A j \in responding : j <= k) => clearOf(sim', k)]_vars

====
